---- MODULE Spec2Model ----
(***************************************************************************)
(* Roadsurfer van-rally report generator: the URL-keyed response cache     *)
(* (cache_utils.py), the API client (api_utils.py) and the report builder  *)
(* (data_utils.py), as state machines.                                     *)
(***************************************************************************)
EXTENDS Integers, Sequences, FiniteSets, TLC

VARIABLES
    now,        \* time.time(), in seconds
    ticks,      \* number of clock advances so far (bounded by MaxTicks)
    cacheDir,   \* CACHE_DIR on disk: "absent" or "dir"
    files,      \* cache file path -> content on disk
    fetched,    \* history: url -> entry last fetched and stored by a cache-backed call
    last,       \* the call just made and what it did (NoCall once time has passed)
    stations,   \* the stations handed to print_routes_for_stations
    pc,         \* position of the main thread in the report builder
    origin_index, \* index in stations of the origin station in hand
    futures,    \* the futures of the executor of print_station_destinations
    completed,  \* finished futures as_completed has still to yield, oldest first
    output,     \* what was printed, as a sequence of print events
    block,      \* the iteration of the loop over the futures made last
    config_yaml,    \* content of config.yaml on disk
    example_yaml,   \* content of config.example.yaml on disk
    _config,        \* Config._config: None until a load succeeded
    _language,      \* Config._language, once set_language has set it
    stations_json,  \* the station list main() obtained and hands to get_stations_with_rally
    stations_with_rally,  \* the details get_stations_with_rally has collected, by station id
    rally_result,   \* what get_stations_with_rally returned
    counts,         \* history: upstream requests issued and calls made in this run
    translation_files,       \* language -> content of its file in the translations directory
    _translations,           \* TranslationManager._translations
    _fallback_translations   \* TranslationManager._fallback_translations


(***************************************************************************)
(* Bounds of the model.                                                    *)
(***************************************************************************)
MaxTicks == 2

(***************************************************************************)
(* Python values, tagged: None, bool, int, str, list, dict (a sequence of        *)
(* <<key, value>> pairs in insertion order).                               *)
(***************************************************************************)
PyNone == <<"none">>
PyBool(b) == <<"bool", b>>
PyInt(n) == <<"int", n>>
PyStr(s) == <<"str", s>>
PyList(seq) == <<"list", seq>>
PyDict(pairs) == <<"dict", pairs>>

\* bool(v): None, 0, "", [] and {} are falsy.
Truthy(v) ==
    CASE v[1] = "none" -> FALSE
      [] v[1] = "bool" -> v[2]
      [] v[1] = "int"  -> v[2] # 0
      [] v[1] = "str"  -> v[2] # ""
      [] v[1] = "list" -> Len(v[2]) > 0
      [] v[1] = "dict" -> Len(v[2]) > 0

\* key in d
DictHas(d, key) == \E i \in 1..Len(d[2]) : d[2][i][1] = PyStr(key)

\* d.get(key, default)
DictGet(d, key, default) ==
    IF DictHas(d, key)
    THEN d[2][CHOOSE i \in 1..Len(d[2]) : d[2][i][1] = PyStr(key)][2]
    ELSE default

(***************************************************************************)
(* JSON documents (the text json.dump writes and json.load reads), as      *)
(* syntax trees: null, boolean, number, string, array, object with string names.    *)
(***************************************************************************)
JNull == <<"null">>
JBool(b) == <<"boolean", b>>
JNumber(n) == <<"number", n>>
JString(s) == <<"string", s>>
JArray(seq) == <<"array", seq>>
JObject(members) == <<"object", members>>

\* str(n) for the small integers used as dict keys
IntToStr(n) == CASE n = 0 -> "0" [] n = 1 -> "1" [] n = 2 -> "2" [] n = 3 -> "3" [] OTHER -> "n"

\* json.dump's name for a dict key: str keys as they are, int keys as str(key)
JsonKey(k) == IF k[1] = "int" THEN IntToStr(k[2]) ELSE k[2]

RECURSIVE JsonDumps(_)
JsonDumps(v) ==
    CASE v[1] = "none" -> JNull
      [] v[1] = "bool" -> JBool(v[2])
      [] v[1] = "int"  -> JNumber(v[2])
      [] v[1] = "str"  -> JString(v[2])
      [] v[1] = "list" -> JArray([i \in 1..Len(v[2]) |-> JsonDumps(v[2][i])])
      [] v[1] = "dict" ->
            JObject([i \in 1..Len(v[2]) |-> <<JsonKey(v[2][i][1]), JsonDumps(v[2][i][2])>>])

RECURSIVE JsonLoads(_)
JsonLoads(j) ==
    CASE j[1] = "null"   -> PyNone
      [] j[1] = "boolean" -> PyBool(j[2])
      [] j[1] = "number" -> PyInt(j[2])
      [] j[1] = "string" -> PyStr(j[2])
      [] j[1] = "array"  -> PyList([i \in 1..Len(j[2]) |-> JsonLoads(j[2][i])])
      [] j[1] = "object" ->
            PyDict([i \in 1..Len(j[2]) |-> <<PyStr(j[2][i][1]), JsonLoads(j[2][i][2])>>])

(***************************************************************************)
(* cache_utils.py                                                          *)
(***************************************************************************)
CACHE_TTL == 86400

\* md5(url).hexdigest(): one digest per URL
_get_cache_key(url) == <<"md5", url>>

\* CACHE_DIR / f"{cache_key}.json"
_get_cache_file_path(cache_key) == <<".cache", cache_key, ".json">>

CachePath(url) == _get_cache_file_path(_get_cache_key(url))

\* What a cache file path holds: no file, text that is not JSON, or a JSON document.
NoFile == <<"nofile">>
InvalidText == <<"invalid">>
JsonFile(doc) == <<"json", doc>>

\* Outcomes of a call: a returned value or a raised exception.
Return(v) == [value |-> v, raised |-> "none"]
Raise(e) == [value |-> PyNone, raised |-> e]

\* Expired with the comparison turned round: old entries are served, fresh ones dropped
ExpiredReversed(timestamp, t) == timestamp + CACHE_TTL > t

\* Expired with <= for <: an entry aged exactly TTL is dropped
ExpiredAtTTL(timestamp, t) == timestamp + CACHE_TTL <= t

\* The TTL test of get_cached: the entry has expired.
Expired(timestamp, t) == timestamp + CACHE_TTL < t

\* get_cached returning the whole stored object instead of its "data" member
get_cached_whole_entry(url, dir, fs, t, io) ==
    IF dir # "dir" THEN Return(PyNone)
    ELSE IF fs[CachePath(url)] = NoFile THEN Return(PyNone)
    ELSE IF io = "OSError" THEN Return(PyNone)
    ELSE IF fs[CachePath(url)] = InvalidText THEN Return(PyNone)
    ELSE LET cache_data == JsonLoads(fs[CachePath(url)][2]) IN
         IF cache_data[1] # "dict" THEN Raise("AttributeError")
         ELSE LET timestamp == DictGet(cache_data, "timestamp", PyInt(0)) IN
              IF timestamp[1] # "int" THEN Raise("TypeError")
              ELSE IF Expired(timestamp[2], t) THEN Return(PyNone)
              ELSE Return(cache_data)

\* get_cached(url) on directory state dir, files fs, at time t; io is the outcome
\* of opening and reading the file ("ok" or "OSError").
get_cached(url, dir, fs, t, io) ==
    IF dir # "dir" THEN Return(PyNone)
    ELSE IF fs[CachePath(url)] = NoFile THEN Return(PyNone)
    ELSE IF io = "OSError" THEN Return(PyNone)
    ELSE IF fs[CachePath(url)] = InvalidText THEN Return(PyNone)
    ELSE LET cache_data == JsonLoads(fs[CachePath(url)][2]) IN
         IF cache_data[1] # "dict" THEN Raise("AttributeError")
         ELSE LET timestamp == DictGet(cache_data, "timestamp", PyInt(0)) IN
              IF timestamp[1] # "int" THEN Raise("TypeError")
              ELSE IF Expired(timestamp[2], t) THEN Return(PyNone)
              ELSE Return(DictGet(cache_data, "data", PyNone))

\* _ensure_cache_dir(): mk is the outcome of mkdir when the directory is absent.
_ensure_cache_dir(dir, mk) ==
    IF dir = "dir" THEN [dir |-> "dir", raised |-> "none"]
    ELSE IF mk = "ok" THEN [dir |-> "dir", raised |-> "none"]
    ELSE [dir |-> dir, raised |-> "OSError"]

\* set_cache(url, data) at time t; wr is the outcome of the write: "ok", "open_fails"
\* (open raises OSError, the file is untouched) or "dump_fails" (OSError after the
\* file was truncated, leaving partial text).
set_cache(url, data, dir, fs, t, mk, wr) ==
    LET ensured == _ensure_cache_dir(dir, mk)
        cache_data == PyDict(<< <<PyStr("timestamp"), PyInt(t)>>, <<PyStr("data"), data>> >>)
    IN  IF ensured.raised # "none"
        THEN [dir |-> dir, fs |-> fs, raised |-> ensured.raised, warned |-> FALSE, wrote |-> FALSE]
        ELSE CASE wr = "ok" ->
                    [dir |-> "dir", fs |-> [fs EXCEPT ![CachePath(url)] = JsonFile(JsonDumps(cache_data))],
                     raised |-> "none", warned |-> FALSE, wrote |-> TRUE]
               [] wr = "open_fails" ->
                    [dir |-> "dir", fs |-> fs, raised |-> "none", warned |-> TRUE, wrote |-> FALSE]
               [] wr = "dump_fails" ->
                    [dir |-> "dir", fs |-> [fs EXCEPT ![CachePath(url)] = InvalidText],
                     raised |-> "none", warned |-> TRUE, wrote |-> FALSE]

\* clear_cache without the rmtree: the directory and its files stay
clear_cache_keeps_files(dir, fs) == [dir |-> dir, fs |-> fs]

\* clear_cache()
clear_cache(dir, fs) ==
    IF dir = "dir"
    THEN [dir |-> "absent", fs |-> [p \in DOMAIN fs |-> NoFile]]
    ELSE [dir |-> dir, fs |-> fs]

(***************************************************************************)
(* api_utils.py                                                            *)
(***************************************************************************)
\* get_config().url_stations and url_timeframes
get_url_stations == <<"stations">>
get_url_timeframes == <<"timeframes">>

\* f"{get_url_stations()}/{station_id}"
StationUrl(station_id) == get_url_stations \o <<station_id>>

\* f"{get_url_timeframes()}/{origin_station_id}-{destination_station_id}"
TimeframesUrl(origin_station_id, destination_station_id) ==
    get_url_timeframes \o <<origin_station_id, destination_station_id>>

\* get_headers(): the header set, known here by its X-Requested-Alias marker
get_headers == "rally.startStations"

\* Outcomes of urlopen: a JSON body, an HTTP-status error or a transport error.
HttpOk(body) == <<"ok", body>>
HttpError == <<"HTTPError">>
UrlError == <<"URLError">>

\* get_json_from_url without its except clauses: a failed request raises
get_json_from_url_uncaught(url, headers, use_cache, dir, fs, t, rd, http, mk, wr) ==
    LET cached == IF use_cache THEN get_cached(url, dir, fs, t, rd) ELSE Return(PyNone)
        reads == IF use_cache THEN 1 ELSE 0
        same == [dir |-> dir, fs |-> fs, reads |-> reads, writes |-> 0,
                 warned |-> FALSE, wrote |-> FALSE]
    IN  IF cached.raised # "none"
        THEN [value |-> PyNone, raised |-> cached.raised, requests |-> 0] @@ same
        ELSE IF use_cache /\ Truthy(cached.value)
        THEN [value |-> cached.value, raised |-> "none", requests |-> 0] @@ same
        ELSE IF http[1] = "ok"
        THEN LET data == JsonLoads(http[2]) IN
             IF use_cache
             THEN LET st == set_cache(url, data, dir, fs, t, mk, wr) IN
                  [value |-> IF st.raised = "none" THEN data ELSE PyNone,
                   raised |-> st.raised, requests |-> 1, dir |-> st.dir, fs |-> st.fs,
                   reads |-> reads, writes |-> 1, warned |-> st.warned, wrote |-> st.wrote]
             ELSE [value |-> data, raised |-> "none", requests |-> 1] @@ same
        ELSE [value |-> PyNone, raised |-> http[1], requests |-> 1] @@ same

\* get_json_from_url(url, headers, use_cache) on directory state dir and files fs at
\* time t, with the outcomes of the file read (rd), the request (http), mkdir (mk)
\* and the file write (wr). The result carries the returned value or the exception,
\* the store after the call, and what the call did.
\* get_json_from_url storing None for the URL when the request failed
get_json_from_url_caches_failure(url, headers, use_cache, dir, fs, t, rd, http, mk, wr) ==
    LET r == get_json_from_url_uncaught(url, headers, use_cache, dir, fs, t, rd, http, mk, wr)
        st == set_cache(url, PyNone, dir, fs, t, mk, wr)
    IN  IF r.raised \in {"HTTPError", "URLError"}
        THEN [r EXCEPT !.raised = "none", !.dir = IF use_cache THEN st.dir ELSE dir,
                       !.fs = IF use_cache THEN st.fs ELSE fs]
        ELSE r

\* get_json_from_url asking the upstream a second time when the request failed
get_json_from_url_retries(url, headers, use_cache, dir, fs, t, rd, http, mk, wr) ==
    LET r == get_json_from_url_uncaught(url, headers, use_cache, dir, fs, t, rd, http, mk, wr)
    IN  IF r.raised \in {"HTTPError", "URLError"}
        THEN [r EXCEPT !.raised = "none", !.requests = 2]
        ELSE r

get_json_from_url(url, headers, use_cache, dir, fs, t, rd, http, mk, wr) ==
    LET cached == IF use_cache THEN get_cached(url, dir, fs, t, rd) ELSE Return(PyNone)
        reads == IF use_cache THEN 1 ELSE 0
        same == [dir |-> dir, fs |-> fs, reads |-> reads, writes |-> 0,
                 warned |-> FALSE, wrote |-> FALSE]
    IN  IF cached.raised # "none"
        THEN [value |-> PyNone, raised |-> cached.raised, requests |-> 0] @@ same
        ELSE IF use_cache /\ Truthy(cached.value)
        THEN [value |-> cached.value, raised |-> "none", requests |-> 0] @@ same
        ELSE IF http[1] = "ok"
        THEN LET data == JsonLoads(http[2]) IN
             IF use_cache
             THEN LET st == set_cache(url, data, dir, fs, t, mk, wr) IN
                  [value |-> IF st.raised = "none" THEN data ELSE PyNone,
                   raised |-> st.raised, requests |-> 1, dir |-> st.dir, fs |-> st.fs,
                   reads |-> reads, writes |-> 1, warned |-> st.warned, wrote |-> st.wrote]
             ELSE [value |-> data, raised |-> "none", requests |-> 1] @@ same
        ELSE [value |-> PyNone, raised |-> "none", requests |-> 1] @@ same

\* get_station_data caching the list of all stations as it caches a station
get_station_data_cached_list(station_id, dir, fs, t, rd, http, mk, wr) ==
    IF station_id # PyNone
    THEN get_json_from_url(StationUrl(station_id[2]), "rally.fetchRoutes", TRUE,
                           dir, fs, t, rd, http, mk, wr)
    ELSE get_json_from_url(get_url_stations, "rally.startStations", TRUE,
                           dir, fs, t, rd, http, mk, wr)

\* get_station_data(station_id); station_id is PyNone for the list of all stations
get_station_data(station_id, dir, fs, t, rd, http, mk, wr) ==
    IF station_id # PyNone
    THEN get_json_from_url(StationUrl(station_id[2]), "rally.fetchRoutes", TRUE,
                           dir, fs, t, rd, http, mk, wr)
    ELSE get_json_from_url(get_url_stations, "rally.startStations", FALSE,
                           dir, fs, t, rd, http, mk, wr)

\* get_stations_data()
get_stations_data(dir, fs, t, rd, http, mk, wr) ==
    get_station_data(PyNone, dir, fs, t, rd, http, mk, wr)

\* get_station_transfer_dates(origin_station_id, destination_station_id)
get_station_transfer_dates(origin_station_id, destination_station_id, dir, fs, t, rd, http, mk, wr) ==
    get_json_from_url(TimeframesUrl(origin_station_id, destination_station_id),
                      "rally.timeframes", TRUE, dir, fs, t, rd, http, mk, wr)

(***************************************************************************)
(* The upstream API: what each endpoint can answer.                        *)
(***************************************************************************)
StationName(id) ==
    CASE id = 1 -> "Madrid" [] id = 2 -> "Barcelona" [] id = 4 -> "Bilbao" [] id = 5 -> "Sevilla"
      [] id = 6 -> "Malaga" [] id = 7 -> "Porto" [] OTHER -> "Valencia"
StationAddress(id) == StationName(id) \o ", Spain"
StationReturns(id) ==
    CASE id = 1 -> <<JNumber(2), JNumber(3)>> [] id = 2 -> <<JNumber(3)>>
      [] id = 4 -> <<JNumber(1), JNumber(2), JNumber(3), JNumber(5), JNumber(6), JNumber(7)>>
      [] OTHER -> <<>>

\* the station-detail document of station id
StationJson(id) ==
    JObject(<< <<"id", JNumber(id)>>, <<"name", JString(StationName(id))>>,
               <<"address", JString(StationAddress(id))>>,
               <<"returns", JArray(StationReturns(id))>> >>)

\* the stations-list document
StationsListJson ==
    JArray(<< JObject(<< <<"id", JNumber(1)>>, <<"one_way", JBool(TRUE)>> >>),
              JObject(<< <<"id", JNumber(2)>>, <<"one_way", JBool(FALSE)>> >>),
              JObject(<< <<"id", JNumber(3)>> >>) >>)

\* the transfer-date document of a route: one date range, told apart by destination
DateOf(destination) == IF destination = 2 THEN "2025-01-01T00:00:00Z" ELSE "2025-02-01T00:00:00Z"
DatesJson(origin, destination) ==
    JArray(<< JObject(<< <<"startDate", JString(DateOf(destination))>>,
                         <<"endDate", JString(DateOf(destination))>> >>) >>)

\* the JSON bodies the upstream can return for a URL, the empty ones included
UpstreamBodies(url) ==
    CASE url = get_url_stations -> {JArray(<<>>), StationsListJson}
      [] Len(url) = 2 -> {JObject(<<>>), StationJson(url[2])}
      [] OTHER -> {JArray(<<>>), DatesJson(url[2], url[3])}

\* the requests the upstream is taken to answer with the document asked for: the
\* transfer dates from station 4 to all its destinations but the last
AnsweredUrls == {TimeframesUrl(4, id) : id \in {1, 2, 3, 5, 6}}

HttpOutcomes(url) ==
    IF url \in AnsweredUrls THEN {HttpOk(DatesJson(url[2], url[3]))}
    ELSE {HttpError, UrlError} \cup {HttpOk(body) : body \in UpstreamBodies(url)}

ReadOutcomes == {"ok", "OSError"}
MkdirOutcomes == {"ok", "OSError"}
WriteOutcomes == {"ok", "open_fails", "dump_fails"}

(***************************************************************************)
(* translations.py: the translation tables.                                *)
(***************************************************************************)
DEFAULT_LANGUAGE == "en"

\* the translation file of a language: "en" and "es" as the tests know them, "de"
\* with a key "es" lacks; "fr" has none
TranslationDoc(lang) ==
    CASE lang = "en" ->
            JObject(<< <<"found_routes", JString("Showing found routes")>>,
                       <<"origin", JString("Origin")>>,
                       <<"destination", JString("Destination")>> >>)
      [] lang = "es" -> JObject(<< <<"found_routes", JString("Mostrando rutas encontradas")>> >>)
      [] OTHER -> JObject(<< <<"origin", JString("Herkunft")>> >>)
TranslationLanguages == {"en", "es", "de", "fr"}
TranslationKeys == {"found_routes", "origin", "destination", "nonexistent_key"}

\* the translations directory: each language's file, where there is one
TranslationDirs ==
    {[l \in TranslationLanguages |-> IF l \in present THEN JsonFile(TranslationDoc(l)) ELSE NoFile] :
        present \in SUBSET {"en", "es", "de"}}

\* load_translations leaving the tables as they are when the language has no file
load_translations_keeps_previous(lang, dir, translations, fallback) ==
    LET exists(l) == dir[l] # NoFile
        load(l) == JsonLoads(dir[l][2])
        warning == IF ~exists(lang) /\ lang # DEFAULT_LANGUAGE
                   THEN <<"Warning: Translation file for '" \o lang
                              \o "' not found. Falling back to " \o DEFAULT_LANGUAGE \o ".">>
                   ELSE <<>>
        result(tr, fb, err) == [value |-> tr, raised |-> "none", translations |-> tr,
                                fallback |-> fb, stderr |-> err]
    IN  IF ~exists(lang)
        THEN [value |-> IF exists(DEFAULT_LANGUAGE) THEN load(DEFAULT_LANGUAGE) ELSE PyDict(<<>>),
              raised |-> "none", translations |-> translations, fallback |-> fallback,
              stderr |-> warning]
        ELSE IF lang = DEFAULT_LANGUAGE \/ ~exists(DEFAULT_LANGUAGE)
        THEN result(load(lang), fallback, warning)
        ELSE result(load(lang), load(DEFAULT_LANGUAGE), warning)

\* TranslationManager.load_translations(language) on a manager holding translations
\* and fallback; stderr is what the call prints there
load_translations(lang, dir, translations, fallback) ==
    LET exists(l) == dir[l] # NoFile
        load(l) == JsonLoads(dir[l][2])
        warning == IF ~exists(lang) /\ lang # DEFAULT_LANGUAGE
                   THEN <<"Warning: Translation file for '" \o lang
                              \o "' not found. Falling back to " \o DEFAULT_LANGUAGE \o ".">>
                   ELSE <<>>
        result(tr, fb, err) == [value |-> tr, raised |-> "none", translations |-> tr,
                                fallback |-> fb, stderr |-> err]
    IN  IF ~exists(lang) /\ ~exists(DEFAULT_LANGUAGE)
        THEN result(PyDict(<<>>), fallback,
                    Append(warning, "Error: Default translation file '" \o DEFAULT_LANGUAGE
                                        \o ".json' not found."))
        ELSE LET tr == IF exists(lang) THEN load(lang) ELSE load(DEFAULT_LANGUAGE)
             IN  IF lang = DEFAULT_LANGUAGE \/ ~exists(DEFAULT_LANGUAGE)
                 THEN result(tr, fallback, warning)
                 ELSE result(tr, load(DEFAULT_LANGUAGE), warning)

\* get_translation looking at the current table only
get_translation_without_fallback(key, translations, fallback) ==
    IF DictHas(translations, key) THEN DictGet(translations, key, PyNone)[2] ELSE key

\* TranslationManager.get_translation(key)
get_translation(key, translations, fallback) ==
    IF DictHas(translations, key) THEN DictGet(translations, key, PyNone)[2]
    ELSE IF DictHas(fallback, key) THEN DictGet(fallback, key, PyNone)[2]
    ELSE key

\* the manager once the module is imported: empty tables, then load_translations()
Imported(dir) == load_translations(DEFAULT_LANGUAGE, dir, PyDict(<<>>), PyDict(<<>>))

translationVars == <<translation_files, _translations, _fallback_translations>>

\* the translations as the repository ships them, loaded by the import
NoTranslations ==
    /\ translation_files = [l \in TranslationLanguages |->
                               IF l \in {"en", "es"} THEN JsonFile(TranslationDoc(l)) ELSE NoFile]
    /\ _translations = Imported(translation_files).translations
    /\ _fallback_translations = Imported(translation_files).fallback

(***************************************************************************)
(* The cache store and the API client as a state machine: any sequence of  *)
(* calls of their public functions, with the clock advancing in between.   *)
(***************************************************************************)
ApiUrls == {get_url_stations, StationUrl(2), TimeframesUrl(1, 2)}
CacheUrls == {StationUrl(2)}
AllUrls ==
    ApiUrls \cup {StationUrl(1), StationUrl(3), TimeframesUrl(1, 3), TimeframesUrl(2, 3)}
            \cup {StationUrl(id) : id \in 4..7}
            \cup {TimeframesUrl(4, id) : id \in {1, 2, 3, 5, 6, 7}}
Paths == {CachePath(u) : u \in AllUrls}

\* payloads handed to set_cache directly: JSON-serializable Python values
Payloads ==
    { PyNone, PyList(<<>>), PyDict(<<>>),
      PyList(<<PyInt(1)>>),
      PyDict(<< <<PyStr("id"), PyInt(2)>> >>),
      PyDict(<< <<PyInt(1), PyStr("a")>> >>) }

\* what an earlier run, or anything else writing to the directory, can have left in
\* a cache file: text that is not JSON, JSON that is no object, an object whose
\* timestamp is no number, an object without timestamp
LeftOvers ==
    { InvalidText,
      JsonFile(JArray(<<>>)),
      JsonFile(JObject(<< <<"timestamp", JString("yesterday")>>, <<"data", JNumber(1)>> >>)),
      JsonFile(JObject(<< <<"data", JNumber(1)>> >>)) }

NoEntry == <<"noentry">>
Entry(data, t) == <<"entry", data, t>>

StartTime == 1000000
TickSteps == {1, CACHE_TTL}

NoCall ==
    [op |-> "none", url |-> <<>>, use_cache |-> FALSE, data |-> PyNone,
     value |-> PyNone, raised |-> "none", requests |-> 0, reads |-> 0, writes |-> 0,
     warned |-> FALSE, wrote |-> FALSE, http |-> "none", rd |-> "none",
     prior |-> NoEntry, after |-> "none", had_dir |-> FALSE, removed |-> {},
     message |-> "", before |-> NoFile, loaded |-> FALSE, urls |-> <<>>,
     language |-> "", key |-> "", stderr |-> <<>>, headers |-> ""]

\* an entry of another URL, stored by an earlier call
Bystander == TimeframesUrl(1, 2)
BystanderFile ==
    JsonFile(JsonDumps(PyDict(<< <<PyStr("timestamp"), PyInt(StartTime)>>,
                                 <<PyStr("data"), JsonLoads(DatesJson(1, 2))>> >>)))

reportVars == <<stations, pc, origin_index, futures, completed, output, block>>
configVars == <<config_yaml, example_yaml, _config, _language>>
mainVars == <<stations_json, stations_with_rally, rally_result, counts>>

Unset == <<"unset">>

NoCounts ==
    [requests |-> 0, get_stations_with_rally |-> 0, print_routes_for_stations |-> 0,
     nothing_found |-> 0]

\* the configuration is not looked at: the URLs stand for what it supplies
NoConfig ==
    /\ config_yaml = NoFile
    /\ example_yaml = NoFile
    /\ _config = PyNone
    /\ _language = Unset

\* main() is not running
NoMain ==
    /\ stations_json = Unset
    /\ stations_with_rally = <<>>
    /\ rally_result = Unset
    /\ counts = NoCounts

NoBlock ==
    [return_station_id |-> PyNone, available_dates |-> <<"unset">>,
     destination_station |-> <<"unset">>, raised |-> "none"]

\* no report is being built
NoReport ==
    /\ stations = <<>>
    /\ pc = "idle"
    /\ origin_index = 0
    /\ futures = <<>>
    /\ completed = <<>>
    /\ output = <<>>
    /\ block = NoBlock

\* the store at the start: no directory, or a directory holding nothing, a leftover
\* file of StationUrl(2), an earlier entry of the bystander URL, or both
InitStore ==
    \/ cacheDir = "absent" /\ files = [p \in Paths |-> NoFile]
    \/ /\ cacheDir = "dir"
       /\ \E c \in LeftOvers \cup {NoFile}, b \in {NoFile, BystanderFile} :
             files = [p \in Paths |-> IF p = CachePath(StationUrl(2)) THEN c
                                      ELSE IF p = CachePath(Bystander) THEN b
                                      ELSE NoFile]

InitCache ==
    /\ now = StartTime
    /\ ticks = 0
    /\ InitStore
    /\ fetched = [u \in AllUrls |-> NoEntry]
    /\ last = NoCall
    /\ NoReport
    /\ NoConfig
    /\ NoMain
    /\ NoTranslations

\* the history of cache-backed fetches after a call that left files fs2: the entry
\* of url is recorded when the call fetched and stored it, and forgotten when the
\* file changed in any other way
FetchedAfter(fs2, url, stored, data) ==
    [u \in AllUrls |->
        IF stored /\ u = url THEN Entry(data, now)
        ELSE IF fs2[CachePath(u)] # files[CachePath(u)] THEN NoEntry
        ELSE fetched[u]]

\* the outcomes that can happen: a read fails only where there is a file to read,
\* mkdir only where the directory is absent
ReadOutcomesOf(url) ==
    IF cacheDir = "dir" /\ files[CachePath(url)] # NoFile THEN ReadOutcomes ELSE {"ok"}
MkdirOutcomesNow == IF cacheDir = "dir" THEN {"ok"} ELSE MkdirOutcomes

\* time passes; the call recorded in last is no longer the one just made
Tick ==
    /\ ticks < MaxTicks
    /\ \E d \in TickSteps : now' = now + d
    /\ ticks' = ticks + 1
    /\ last' = NoCall
    /\ UNCHANGED <<cacheDir, files, fetched>>
    /\ UNCHANGED <<reportVars, configVars, mainVars, translationVars>>

\* a call set_cache(url, data)
SetCache ==
    \E url \in CacheUrls, data \in Payloads, mk \in MkdirOutcomesNow, wr \in WriteOutcomes :
        \E r \in {set_cache(url, data, cacheDir, files, now, mk, wr)} :
            /\ cacheDir' = r.dir
            /\ files' = r.fs
            /\ fetched' = FetchedAfter(r.fs, url, FALSE, data)
            /\ last' = [NoCall EXCEPT !.op = "set_cache", !.url = url, !.data = data,
                           !.raised = r.raised, !.writes = 1,
                           !.warned = r.warned, !.wrote = r.wrote]
            /\ UNCHANGED <<now, ticks>>
            /\ UNCHANGED <<reportVars, configVars, mainVars, translationVars>>

\* get_cached removing the file of an entry it reports absent
GetCachedEvicts ==
    \E url \in CacheUrls :
        \E rd \in ReadOutcomesOf(url) :
            \E r \in {get_cached(url, cacheDir, files, now, rd)} :
                /\ last' = [NoCall EXCEPT !.op = "get_cached", !.url = url,
                               !.value = r.value, !.raised = r.raised, !.reads = 1,
                               !.rd = rd,
                               !.after = IF last.op = "clear_cache" THEN "clear_cache"
                                         ELSE IF last.url = url /\ last.raised = "none"
                                         THEN last.op ELSE "none",
                               !.had_dir = last.had_dir,
                               !.removed = last.removed,
                               !.data = IF last.op = "set_cache" /\ last.url = url
                                        THEN last.data ELSE PyNone,
                               !.wrote = last.op = "set_cache" /\ last.url = url /\ last.wrote]
                /\ files' = [files EXCEPT ![CachePath(url)] =
                                IF r.raised = "none" /\ r.value = PyNone THEN NoFile ELSE @]
                /\ UNCHANGED <<now, ticks, cacheDir, fetched>>
                /\ UNCHANGED <<reportVars, configVars, mainVars, translationVars>>

\* a call get_cached(url); when it follows a set_cache(url, data) at once, the
\* record keeps that call's data and whether it wrote; when it follows a
\* clear_cache() at once, it keeps what that call found and removed
GetCached ==
    \E url \in CacheUrls :
        \E rd \in ReadOutcomesOf(url) :
            \E r \in {get_cached(url, cacheDir, files, now, rd)} :
                /\ last' = [NoCall EXCEPT !.op = "get_cached", !.url = url,
                               !.value = r.value, !.raised = r.raised, !.reads = 1,
                               !.rd = rd,
                               !.after = IF last.op = "clear_cache" THEN "clear_cache"
                                         ELSE IF last.url = url /\ last.raised = "none"
                                         THEN last.op ELSE "none",
                               !.had_dir = last.had_dir,
                               !.removed = last.removed,
                               !.data = IF last.op = "set_cache" /\ last.url = url
                                        THEN last.data ELSE PyNone,
                               !.wrote = last.op = "set_cache" /\ last.url = url /\ last.wrote]
                /\ UNCHANGED <<now, ticks, cacheDir, files, fetched>>
                /\ UNCHANGED <<reportVars, configVars, mainVars, translationVars>>

\* a call clear_cache(); the record keeps whether there was a directory and the
\* URLs whose cache files went with it
ClearCache ==
    \E r \in {clear_cache(cacheDir, files)} :
        /\ cacheDir' = r.dir
        /\ files' = r.fs
        /\ fetched' = [u \in AllUrls |-> NoEntry]
        /\ last' = [NoCall EXCEPT !.op = "clear_cache",
                       !.had_dir = cacheDir = "dir",
                       !.removed = {u \in AllUrls : files[CachePath(u)] # NoFile}]
        /\ UNCHANGED <<now, ticks>>
        /\ UNCHANGED <<reportVars, configVars, mainVars, translationVars>>

\* the state after an API call op that answered r
ApiCall(op, url, use_cache, rd, http, r) ==
    /\ cacheDir' = r.dir
    /\ files' = r.fs
    /\ fetched' = FetchedAfter(r.fs, url, use_cache /\ r.requests = 1 /\ r.wrote, r.value)
    /\ last' = [NoCall EXCEPT !.op = op, !.url = url, !.use_cache = use_cache,
                   !.value = r.value, !.raised = r.raised,
                   !.requests = r.requests, !.reads = r.reads, !.writes = r.writes,
                   !.warned = r.warned, !.wrote = r.wrote, !.http = http[1], !.rd = rd,
                   !.data = IF http[1] = "ok" THEN JsonLoads(http[2]) ELSE PyNone,
                   !.prior = fetched[url]]
    /\ UNCHANGED <<now, ticks>>
    /\ UNCHANGED <<reportVars, configVars, mainVars, translationVars>>

\* The API calls are made on a file system that works: reads, mkdir and writes
\* succeed (their failures are those of SetCache and GetCached above); the request
\* itself succeeds or fails.

\* a call get_json_from_url(url, headers, use_cache=False) for the stations list
GetJsonFromUrl ==
    \E http \in HttpOutcomes(get_url_stations) :
        \E r \in {get_json_from_url(get_url_stations, get_headers, FALSE, cacheDir, files, now,
                                    "ok", http, "ok", "ok")} :
            ApiCall("get_json_from_url", get_url_stations, FALSE, "ok", http, r)

\* a call get_station_data(2)
GetStationData ==
    \E http \in HttpOutcomes(StationUrl(2)) :
        \E r \in {get_station_data(PyInt(2), cacheDir, files, now, "ok", http, "ok", "ok")} :
            ApiCall("get_station_data", StationUrl(2), TRUE, "ok", http, r)

\* a call get_json_from_url(url, headers, use_cache=True) for the URL of station 2,
\* with one header set or another
GetJsonFromUrlCached ==
    \E headers \in {"rally.startStations", "rally.timeframes"},
       http \in HttpOutcomes(StationUrl(2)) :
        \E r \in {get_json_from_url(StationUrl(2), headers, TRUE, cacheDir, files, now,
                                    "ok", http, "ok", "ok")} :
            /\ cacheDir' = r.dir
            /\ files' = r.fs
            /\ fetched' = FetchedAfter(r.fs, StationUrl(2), r.requests = 1 /\ r.wrote, r.value)
            /\ last' = [NoCall EXCEPT !.op = "get_json_from_url_cached",
                           !.url = StationUrl(2), !.use_cache = TRUE, !.headers = headers,
                           !.value = r.value, !.raised = r.raised,
                           !.requests = r.requests, !.reads = r.reads, !.writes = r.writes,
                           !.warned = r.warned, !.wrote = r.wrote, !.http = http[1],
                           !.rd = "ok",
                           !.data = IF http[1] = "ok" THEN JsonLoads(http[2]) ELSE PyNone,
                           !.prior = fetched[StationUrl(2)]]
            /\ UNCHANGED <<now, ticks>>
            /\ UNCHANGED <<reportVars, configVars, mainVars, translationVars>>

\* a call get_stations_data(), which is get_station_data(None)
GetStationsData ==
    \E http \in HttpOutcomes(get_url_stations) :
        \E r \in {get_stations_data(cacheDir, files, now, "ok", http, "ok", "ok")} :
            ApiCall("get_stations_data", get_url_stations, FALSE, "ok", http, r)

\* a call get_station_transfer_dates(1, 2)
GetStationTransferDates ==
    \E http \in HttpOutcomes(TimeframesUrl(1, 2)) :
        \E r \in {get_station_transfer_dates(1, 2, cacheDir, files, now, "ok", http, "ok", "ok")} :
            ApiCall("get_station_transfer_dates", TimeframesUrl(1, 2), TRUE, "ok", http, r)

vars == <<now, ticks, cacheDir, files, fetched, last,
          stations, pc, origin_index, futures, completed, output, block,
          config_yaml, example_yaml, _config, _language,
          stations_json, stations_with_rally, rally_result, counts,
          translation_files, _translations, _fallback_translations>>

\* the cache store alone: calls of set_cache, get_cached and clear_cache
NextCache ==
    \/ Tick
    \/ SetCache
    \/ GetCached
    \/ ClearCache

SpecCache == InitCache /\ [][NextCache]_vars

\* the API client over the cache store
NextApi ==
    \/ Tick
    \/ ClearCache
    \/ GetJsonFromUrl
    \/ GetJsonFromUrlCached
    \/ GetStationData
    \/ GetStationsData
    \/ GetStationTransferDates

\* an entry of the stations-list URL, stored by an earlier call
StationsFile ==
    JsonFile(JsonDumps(PyDict(<< <<PyStr("timestamp"), PyInt(StartTime)>>,
                                 <<PyStr("data"), JsonLoads(JArray(<<JNumber(1)>>))>> >>)))

\* the API client starts without a directory, or with one that is empty or holds
\* an entry of the stations-list URL
InitApi ==
    /\ now = StartTime
    /\ ticks = 0
    /\ \/ cacheDir = "absent" /\ files = [p \in Paths |-> NoFile]
       \/ /\ cacheDir = "dir"
          /\ \E c \in {NoFile, StationsFile} :
                files = [p \in Paths |-> IF p = CachePath(get_url_stations) THEN c ELSE NoFile]
    /\ fetched = [u \in AllUrls |-> NoEntry]
    /\ last = NoCall
    /\ NoReport
    /\ NoConfig
    /\ NoMain
    /\ NoTranslations

SpecApi == InitApi /\ [][NextApi]_vars

(***************************************************************************)
(* The report builder (data_utils.py) over the API client, and what it     *)
(* prints (output_handler.py).                                             *)
(***************************************************************************)
\* d[key] of a dict d holding the key
Item(d, key) == DictGet(d, key, PyNone)

\* urllib.parse.quote(s, safe=":/") of the addresses of the stations
quote(s) ==
    CASE s = "Madrid, Spain" -> "Madrid%2C%20Spain"
      [] s = "Barcelona, Spain" -> "Barcelona%2C%20Spain"
      [] s = "Valencia, Spain" -> "Valencia%2C%20Spain"
      [] s = "Bilbao, Spain" -> "Bilbao%2C%20Spain"
      [] s = "Sevilla, Spain" -> "Sevilla%2C%20Spain"
      [] s = "Malaga, Spain" -> "Malaga%2C%20Spain"
      [] s = "Porto, Spain" -> "Porto%2C%20Spain"
      [] OTHER -> s

\* datetime.strptime(s[:10], "%Y-%m-%d").strftime("%d/%m/%Y") of the upstream's dates
FormatDate(s) ==
    CASE s = "2025-01-01T00:00:00Z" -> "01/01/2025"
      [] s = "2025-02-01T00:00:00Z" -> "01/02/2025"
      [] OTHER -> "ValueError"

\* the print events of output_handler.py, and the bare print() ending a block
output_found_routes_title == <<"found_routes">>
output_origin(name) == <<"origin", name>>
output_destination_title == <<"destination">>
output_destination_with_route_url(station_name, origin_encoded_address, destination_encoded_address) ==
    <<"route", station_name, origin_encoded_address, destination_encoded_address>>
output_available_dates(start_date, end_date) == <<"dates", start_date, end_date>>
NewLine == <<"newline">>

\* print_station_destination_with_route_url(station, return_station_id), printing
\* after out; http is the outcome of the request of the detail lookup, if it makes
\* one. Subscripting None raises TypeError, a dict without the key KeyError.
print_station_destination_with_route_url(station, return_station_id, out, dir, fs, t, http) ==
    LET out1 == Append(out, output_destination_title)
        origin_encoded_address == quote(Item(station, "address")[2])
        r == get_station_data(return_station_id, dir, fs, t, "ok", http, "ok", "ok")
        destination_station == r.value
        result(o, e) == [output |-> o, raised |-> e, dir |-> r.dir, fs |-> r.fs,
                         requests |-> r.requests,
                         destination_station |-> destination_station]
    IN  IF r.raised # "none" THEN result(out1, r.raised)
        ELSE IF destination_station = PyNone THEN result(out1, "TypeError")
        ELSE IF ~DictHas(destination_station, "address") THEN result(out1, "KeyError")
        ELSE IF ~DictHas(destination_station, "name") THEN result(out1, "KeyError")
        ELSE result(Append(out1, output_destination_with_route_url(
                                     Item(destination_station, "name")[2],
                                     origin_encoded_address,
                                     quote(Item(destination_station, "address")[2]))),
                    "none")

\* print_available_dates(available_dates), printing after out; iterating over None
\* raises TypeError. The date ranges of the upstream carry both dates.
print_available_dates(available_dates, out) ==
    IF available_dates[1] # "list" THEN [output |-> out, raised |-> "TypeError"]
    ELSE [output |-> out \o [i \in 1..Len(available_dates[2]) |->
                                output_available_dates(
                                    FormatDate(Item(available_dates[2][i], "startDate")[2]),
                                    FormatDate(Item(available_dates[2][i], "endDate")[2]))]
                         \o <<NewLine>>,
          raised |-> "none"]

\* ThreadPoolExecutor(max_workers=5) of print_station_destinations
max_workers == 5

\* a station as get_stations_with_rally hands it over: the decoded detail document
Station(id) == JsonLoads(StationJson(id))

\* the lists of rally stations reported on
ReportInputs == { <<Station(1)>>, <<Station(2), Station(1)>> }

Pending == {i \in DOMAIN futures : futures[i].state = "pending"}
Running == {i \in DOMAIN futures : futures[i].state = "running"}

\* the call print_routes_for_stations(stations) begins: the title is printed
PrintRoutesForStations ==
    /\ pc = "start"
    /\ output' = Append(output, output_found_routes_title)
    /\ origin_index' = 1
    /\ pc' = IF stations = <<>> THEN "returned" ELSE "station"
    /\ UNCHANGED <<now, ticks, cacheDir, files, fetched, last>>
    /\ UNCHANGED <<stations, futures, completed, block>>
    /\ UNCHANGED <<configVars, mainVars, translationVars>>

\* print_station_destinations(station) begins: the origin is printed and one
\* get_station_transfer_dates call per element of returns is submitted
PrintStationDestinations ==
    /\ pc = "station"
    /\ LET station == stations[origin_index]
           returns == Item(station, "returns")[2]
       IN  /\ output' = Append(output, output_origin(Item(station, "name")[2]))
           /\ futures' = [i \in 1..Len(returns) |->
                             [dest |-> returns[i], state |-> "pending",
                              result |-> PyNone, raised |-> "none"]]
    /\ completed' = <<>>
    /\ pc' = "as_completed"
    /\ UNCHANGED <<now, ticks, cacheDir, files, fetched, last>>
    /\ UNCHANGED <<stations, origin_index, block>>
    /\ UNCHANGED <<configVars, mainVars, translationVars>>

\* a pool without a limit: a thread for every submitted call
WorkerStartUnbounded ==
    /\ pc \in {"as_completed", "shutdown"}
    /\ \E i \in Pending :
          /\ \A j \in Pending : i <= j
          /\ futures' = [futures EXCEPT ![i].state = "running"]
    /\ UNCHANGED <<now, ticks, cacheDir, files, fetched, last>>
    /\ UNCHANGED <<stations, pc, origin_index, completed, output, block>>
    /\ UNCHANGED <<configVars, mainVars, translationVars>>

\* a worker thread of the pool takes the oldest submitted call that is waiting
WorkerStart ==
    /\ pc \in {"as_completed", "shutdown"}
    /\ Cardinality(Running) < max_workers
    /\ \E i \in Pending :
          /\ \A j \in Pending : i <= j
          /\ futures' = [futures EXCEPT ![i].state = "running"]
    /\ UNCHANGED <<now, ticks, cacheDir, files, fetched, last>>
    /\ UNCHANGED <<stations, pc, origin_index, completed, output, block>>
    /\ UNCHANGED <<configVars, mainVars, translationVars>>

\* a worker thread's get_station_transfer_dates call returns and its future is done
WorkerFinish ==
    /\ pc \in {"as_completed", "shutdown"}
    /\ \E i \in Running :
          \E http \in HttpOutcomes(TimeframesUrl(Item(stations[origin_index], "id")[2],
                                                 futures[i].dest[2])) :
             \E r \in {get_station_transfer_dates(Item(stations[origin_index], "id")[2],
                                                  futures[i].dest[2], cacheDir, files, now,
                                                  "ok", http, "ok", "ok")} :
                /\ futures' = [futures EXCEPT ![i].state = "finished",
                                              ![i].result = r.value,
                                              ![i].raised = r.raised]
                /\ completed' = Append(completed, i)
                /\ cacheDir' = r.dir
                /\ files' = r.fs
                /\ counts' = [counts EXCEPT !.requests = @ + r.requests]
    /\ UNCHANGED <<now, ticks, fetched, last>>
    /\ UNCHANGED <<stations, pc, origin_index, output, block>>
    /\ UNCHANGED <<stations_json, stations_with_rally, rally_result>>
    /\ UNCHANGED <<configVars, translationVars>>

\* as_completed yields the future that finished first among those not yet yielded,
\* and the body of the loop runs for it
AsCompleted ==
    /\ pc = "as_completed"
    /\ completed # <<>>
    /\ LET future == futures[Head(completed)]
           return_station_id == future.dest
           available_dates == future.result
       IN  \E http \in HttpOutcomes(StationUrl(return_station_id[2])) :
              \E d \in {print_station_destination_with_route_url(
                            stations[origin_index], return_station_id, output,
                            cacheDir, files, now, http)} :
                 \E a \in {print_available_dates(available_dates, d.output)} :
                    IF future.raised # "none"
                    THEN /\ block' = [NoBlock EXCEPT !.return_station_id = return_station_id,
                                                     !.raised = future.raised]
                         /\ pc' = "shutdown"
                         /\ UNCHANGED <<output, cacheDir, files, counts>>
                    ELSE /\ block' = [return_station_id |-> return_station_id,
                                      available_dates |-> available_dates,
                                      destination_station |-> d.destination_station,
                                      raised |-> IF d.raised # "none" THEN d.raised
                                                 ELSE a.raised]
                         /\ output' = IF d.raised # "none" THEN d.output ELSE a.output
                         /\ pc' = IF d.raised = "none" /\ a.raised = "none"
                                  THEN "as_completed" ELSE "shutdown"
                         /\ cacheDir' = d.dir
                         /\ files' = d.fs
                         /\ counts' = [counts EXCEPT !.requests = @ + d.requests]
    /\ completed' = Tail(completed)
    /\ UNCHANGED <<now, ticks, fetched, last>>
    /\ UNCHANGED <<stations, origin_index, futures>>
    /\ UNCHANGED <<stations_json, stations_with_rally, rally_result>>
    /\ UNCHANGED <<configVars, translationVars>>

\* every future was yielded: the executor is shut down with nothing to wait for and
\* print_routes_for_stations goes on to the next station
EndOfStation ==
    /\ pc = "as_completed"
    /\ completed = <<>>
    /\ \A i \in DOMAIN futures : futures[i].state = "finished"
    /\ futures' = <<>>
    /\ origin_index' = origin_index + 1
    /\ pc' = IF origin_index < Len(stations) THEN "station" ELSE "returned"
    /\ UNCHANGED <<now, ticks, cacheDir, files, fetched, last>>
    /\ UNCHANGED <<stations, completed, output, block>>
    /\ UNCHANGED <<configVars, mainVars, translationVars>>

\* an exception left the with block: the executor is shut down once every submitted
\* call has run, and the exception leaves print_routes_for_stations
ExecutorShutdown ==
    /\ pc \in {"shutdown", "rally_shutdown"}
    /\ Pending = {}
    /\ Running = {}
    /\ pc' = "raised"
    /\ UNCHANGED <<now, ticks, cacheDir, files, fetched, last>>
    /\ UNCHANGED <<stations, origin_index, futures, completed, output, block>>
    /\ UNCHANGED <<configVars, mainVars, translationVars>>

NextReport ==
    \/ PrintRoutesForStations
    \/ PrintStationDestinations
    \/ WorkerStart
    \/ WorkerFinish
    \/ AsCompleted
    \/ EndOfStation
    \/ ExecutorShutdown

\* a report is built on a cache that is empty: no directory, or one without files
InitReport ==
    /\ now = StartTime
    /\ ticks = 0
    /\ cacheDir \in {"absent", "dir"}
    /\ files = [p \in Paths |-> NoFile]
    /\ fetched = [u \in AllUrls |-> NoEntry]
    /\ last = NoCall
    /\ stations \in ReportInputs
    /\ pc = "start"
    /\ origin_index = 0
    /\ futures = <<>>
    /\ completed = <<>>
    /\ output = <<>>
    /\ block = NoBlock
    /\ NoConfig
    /\ NoMain
    /\ NoTranslations

SpecReport == InitReport /\ [][NextReport]_vars

(***************************************************************************)
(* get_stations_with_rally (data_utils.py): the filter of the station list *)
(* and the concurrent fetch of the details.                                *)
(***************************************************************************)
\* station.get("one_way", False), taken for its truth
one_way(station) == Truthy(DictGet(station, "one_way", PyBool(FALSE)))

\* filtered_stations of a station list
filtered_stations(station_list) == SelectSeq(station_list[2], one_way)

\* ThreadPoolExecutor(max_workers=10) of get_stations_with_rally
max_workers_rally == 10

\* stations_with_rally, a dict in insertion order, as a sequence of <<id, detail>>
InRally(rally, station_id) == \E i \in DOMAIN rally : rally[i][1] = station_id
RallyGet(rally, station_id) ==
    rally[CHOOSE i \in DOMAIN rally : rally[i][1] = station_id][2]
RallySet(rally, station_id, station_data) ==
    IF InRally(rally, station_id)
    THEN [i \in DOMAIN rally |-> IF rally[i][1] = station_id
                                 THEN <<station_id, station_data>> ELSE rally[i]]
    ELSE Append(rally, <<station_id, station_data>>)

\* the loop body without its test: whatever the call returned is kept
CollectAlways(rally, station_id, station_data) == RallySet(rally, station_id, station_data)

\* the body of the loop over the futures: station_data is kept if it is truthy
Collect(rally, station_id, station_data) ==
    IF Truthy(station_data) THEN RallySet(rally, station_id, station_data) ELSE rally

\* the list returned with the details in the order they were collected
RallyListInCompletionOrder(filtered, rally) ==
    PyList([i \in DOMAIN rally |-> rally[i][2]])

\* the list get_stations_with_rally returns: the collected details in the order of
\* filtered_stations
RallyList(filtered, rally) ==
    LET Collected(s) == InRally(rally, Item(s, "id"))
        kept == SelectSeq(filtered, Collected)
    IN  PyList([i \in DOMAIN kept |-> RallyGet(rally, Item(kept[i], "id"))])

\* a station of the upstream's list
ListStation(id, flag) ==
    IF flag = "missing" THEN PyDict(<< <<PyStr("id"), PyInt(id)>> >>)
    ELSE PyDict(<< <<PyStr("id"), PyInt(id)>>, <<PyStr("one_way"), PyBool(flag = "true")>> >>)

\* the station lists handed to get_stations_with_rally
RallyInputs ==
    { PyList(<<>>),
      PyList(<<ListStation(2, "false")>>),
      PyList(<<ListStation(1, "true"), ListStation(2, "false"), ListStation(3, "true")>>),
      PyList(<<ListStation(3, "true"), ListStation(2, "true"), ListStation(1, "missing")>>),
      JsonLoads(StationsListJson) }

\* get_stations_with_rally(stations) begins: the list is filtered and one
\* get_station_data call per rally station is submitted
GetStationsWithRally ==
    /\ pc = "rally"
    /\ counts' = [counts EXCEPT !.get_stations_with_rally = @ + 1]
    /\ stations_with_rally' = <<>>
    /\ completed' = <<>>
    /\ LET filtered == filtered_stations(stations_json)
       IN  IF filtered = <<>>
           THEN /\ rally_result' = PyList(<<>>)
                /\ futures' = <<>>
                /\ pc' = "rally_returned"
           ELSE /\ futures' = [i \in DOMAIN filtered |->
                                  [dest |-> Item(filtered[i], "id"), state |-> "pending",
                                   result |-> PyNone, raised |-> "none"]]
                /\ pc' = "rally_as_completed"
                /\ UNCHANGED rally_result
    /\ UNCHANGED <<now, ticks, cacheDir, files, fetched, last>>
    /\ UNCHANGED <<stations, origin_index, output, block, stations_json>>
    /\ UNCHANGED <<configVars, translationVars>>

\* a worker thread of the pool takes the oldest submitted call that is waiting
RallyWorkerStart ==
    /\ pc \in {"rally_as_completed", "rally_shutdown"}
    /\ Cardinality(Running) < max_workers_rally
    /\ \E i \in Pending :
          /\ \A j \in Pending : i <= j
          /\ futures' = [futures EXCEPT ![i].state = "running"]
    /\ UNCHANGED <<now, ticks, cacheDir, files, fetched, last>>
    /\ UNCHANGED <<stations, pc, origin_index, completed, output, block>>
    /\ UNCHANGED <<configVars, mainVars, translationVars>>

\* a worker thread's get_station_data call returns and its future is done
RallyWorkerFinish ==
    /\ pc \in {"rally_as_completed", "rally_shutdown"}
    /\ \E i \in Running :
          \E http \in HttpOutcomes(StationUrl(futures[i].dest[2])) :
             \E r \in {get_station_data(futures[i].dest, cacheDir, files, now,
                                        "ok", http, "ok", "ok")} :
                /\ futures' = [futures EXCEPT ![i].state = "finished",
                                              ![i].result = r.value,
                                              ![i].raised = r.raised]
                /\ completed' = Append(completed, i)
                /\ cacheDir' = r.dir
                /\ files' = r.fs
                /\ counts' = [counts EXCEPT !.requests = @ + r.requests]
    /\ UNCHANGED <<now, ticks, fetched, last>>
    /\ UNCHANGED <<stations, pc, origin_index, output, block>>
    /\ UNCHANGED <<stations_json, stations_with_rally, rally_result>>
    /\ UNCHANGED <<configVars, translationVars>>

\* as_completed yields the future that finished first among those not yet yielded;
\* its detail is kept unless it is None or empty
RallyAsCompleted ==
    /\ pc = "rally_as_completed"
    /\ completed # <<>>
    /\ LET future == futures[Head(completed)]
           station_id == future.dest
           station_data == future.result
       IN  IF future.raised # "none"
           THEN /\ pc' = "rally_shutdown"
                /\ UNCHANGED stations_with_rally
           ELSE /\ stations_with_rally' = Collect(stations_with_rally, station_id, station_data)
                /\ UNCHANGED pc
    /\ completed' = Tail(completed)
    /\ UNCHANGED <<now, ticks, cacheDir, files, fetched, last>>
    /\ UNCHANGED <<stations, origin_index, futures, output, block>>
    /\ UNCHANGED <<stations_json, rally_result, counts>>
    /\ UNCHANGED <<configVars, translationVars>>

\* every future was yielded: get_stations_with_rally returns its list
RallyReturn ==
    /\ pc = "rally_as_completed"
    /\ completed = <<>>
    /\ \A i \in DOMAIN futures : futures[i].state = "finished"
    /\ rally_result' = RallyList(filtered_stations(stations_json), stations_with_rally)
    /\ pc' = "rally_returned"
    /\ UNCHANGED <<now, ticks, cacheDir, files, fetched, last>>
    /\ UNCHANGED <<stations, origin_index, futures, completed, output, block>>
    /\ UNCHANGED <<stations_json, stations_with_rally, counts>>
    /\ UNCHANGED <<configVars, translationVars>>

NextRally ==
    \/ GetStationsWithRally
    \/ RallyWorkerStart
    \/ RallyWorkerFinish
    \/ RallyAsCompleted
    \/ RallyReturn

\* get_stations_with_rally is called with a station list, on a cache that is empty
InitRally ==
    /\ now = StartTime
    /\ ticks = 0
    /\ cacheDir \in {"absent", "dir"}
    /\ files = [p \in Paths |-> NoFile]
    /\ fetched = [u \in AllUrls |-> NoEntry]
    /\ last = NoCall
    /\ stations = <<>>
    /\ pc = "rally"
    /\ origin_index = 0
    /\ futures = <<>>
    /\ completed = <<>>
    /\ output = <<>>
    /\ block = NoBlock
    /\ NoConfig
    /\ stations_json \in RallyInputs
    /\ stations_with_rally = <<>>
    /\ rally_result = Unset
    /\ counts = NoCounts
    /\ NoTranslations

SpecRally == InitRally /\ [][NextRally]_vars

(***************************************************************************)
(* The two fan-outs with more calls than the transfer-date pool has        *)
(* workers: the report on a station with six destinations, and the details *)
(* of a list of rally stations.                                            *)
(***************************************************************************)
\* either call begins on an empty cache
InitFanOut ==
    /\ now = StartTime
    /\ ticks = 0
    /\ cacheDir = "dir"
    /\ files = [p \in Paths |-> NoFile]
    /\ fetched = [u \in AllUrls |-> NoEntry]
    /\ last = NoCall
    /\ origin_index = 0
    /\ futures = <<>>
    /\ completed = <<>>
    /\ output = <<>>
    /\ block = NoBlock
    /\ NoConfig
    /\ stations_with_rally = <<>>
    /\ rally_result = Unset
    /\ counts = NoCounts
    /\ NoTranslations
    /\ \/ pc = "start" /\ stations = <<Station(4)>> /\ stations_json = Unset
       \/ /\ pc = "rally"
          /\ stations = <<>>
          /\ stations_json = PyList(<<ListStation(1, "true"), ListStation(2, "true"),
                                      ListStation(3, "true"), ListStation(4, "true")>>)

NextFanOut ==
    \/ NextReport
    \/ NextRally

SpecFanOut == InitFanOut /\ [][NextFanOut]_vars

(***************************************************************************)
(* config_utils.py: the configuration singleton.                           *)
(***************************************************************************)
LANGUAGE_CODE_LENGTH == 2

\* a file holding a YAML document; yaml.safe_load turns it into Python values
YamlFile(doc) == <<"yaml", doc>>
yaml_safe_load(f) == JsonLoads(f[2])

\* `key not in container`: "yes", "no", or "TypeError" where the container is None,
\* a number or a boolean (of the strings here only an equal one contains a key)
NotIn(key, container) ==
    CASE container[1] = "dict" -> IF DictHas(container, key) THEN "no" ELSE "yes"
      [] container[1] = "list" ->
            IF \E i \in DOMAIN container[2] : container[2][i] = PyStr(key) THEN "no" ELSE "yes"
      [] container[1] = "str" -> IF container[2] = key THEN "no" ELSE "yes"
      [] OTHER -> "TypeError"

\* container[key] for a key found in it: subscripting a list or a string with a
\* str raises TypeError
Subscript(container, key) ==
    IF container[1] = "dict" THEN Return(Item(container, key)) ELSE Raise("TypeError")

ConfigError(msg) == [raised |-> "ConfigurationError", message |-> msg]
OtherError(e) == [raised |-> e, message |-> ""]
Valid == [raised |-> "none", message |-> ""]

\* one test of _validate_config: field must be in container; then goes on with rest
Require(container, field, name, rest) ==
    CASE NotIn(field, container) = "TypeError" -> OtherError("TypeError")
      [] NotIn(field, container) = "yes" ->
            ConfigError("Missing required field '" \o name \o "' in configuration")
      [] OTHER -> rest

\* Config._validate_config(config)
_validate_config(config) ==
    Require(config, "api", "api",
    Require(config, "maps", "maps",
    Require(config, "language_map", "language_map",
    LET api == Subscript(config, "api") IN
    IF api.raised # "none" THEN OtherError(api.raised) ELSE
    Require(api.value, "base_url", "api.base_url",
    Require(api.value, "endpoints", "api.endpoints",
    LET endpoints == Subscript(api.value, "endpoints") IN
    IF endpoints.raised # "none" THEN OtherError(endpoints.raised) ELSE
    Require(endpoints.value, "stations", "api.endpoints.stations",
    Require(endpoints.value, "timeframes", "api.endpoints.timeframes",
    LET maps == Subscript(config, "maps") IN
    IF maps.raised # "none" THEN OtherError(maps.raised) ELSE
    Require(maps.value, "directions_url", "maps.directions_url",
    Valid))))))))

\* _load_config copying the template whenever there is one, over a config.yaml
\* that exists too
_load_config_overwrites(cfg, example, rd) ==
    IF cfg = NoFile /\ example = NoFile
    THEN [raised |-> "ConfigurationError",
          message |-> "config.example.yaml not found. Cannot create default configuration.",
          config |-> PyNone, config_yaml |-> cfg, created |-> FALSE]
    ELSE LET file == IF example # NoFile THEN example ELSE cfg
             created == example # NoFile
             failed(e) == [raised |-> e.raised, message |-> e.message, config |-> PyNone,
                           config_yaml |-> file, created |-> created]
         IN  IF rd = "OSError" THEN failed(ConfigError("Error reading config.yaml"))
             ELSE IF file = InvalidText THEN failed(ConfigError("Invalid YAML in config.yaml"))
             ELSE LET config == yaml_safe_load(file)
                      v == _validate_config(config)
                  IN  IF v.raised # "none" THEN failed(v)
                      ELSE [raised |-> "none", message |-> "", config |-> config,
                            config_yaml |-> file, created |-> created]

\* Config._load_config() with config.yaml holding cfg and config.example.yaml holding
\* example; rd is the outcome of opening and reading config.yaml. The result carries
\* config.yaml after the call and whether the call created it.
_load_config(cfg, example, rd) ==
    IF cfg = NoFile /\ example = NoFile
    THEN [raised |-> "ConfigurationError",
          message |-> "config.example.yaml not found. Cannot create default configuration.",
          config |-> PyNone, config_yaml |-> cfg, created |-> FALSE]
    ELSE LET file == IF cfg = NoFile THEN example ELSE cfg
             created == cfg = NoFile
             failed(e) == [raised |-> e.raised, message |-> e.message, config |-> PyNone,
                           config_yaml |-> file, created |-> created]
         IN  IF rd = "OSError" THEN failed(ConfigError("Error reading config.yaml"))
             ELSE IF file = InvalidText THEN failed(ConfigError("Invalid YAML in config.yaml"))
             ELSE LET config == yaml_safe_load(file)
                      v == _validate_config(config)
                  IN  IF v.raised # "none" THEN failed(v)
                      ELSE [raised |-> "none", message |-> "", config |-> config,
                            config_yaml |-> file, created |-> created]

\* Config.language
language(lang) == IF lang = Unset THEN "en" ELSE lang[2]

\* url.rstrip("/") and url.split("/") of the base URLs configured here, and "/".join
rstrip_slash(url) ==
    CASE url = "https://test.com/api/" -> "https://test.com/api"
      [] OTHER -> url
split_slash(url) ==
    CASE url = "https://test.com/api" -> <<"https:", "", "test.com", "api">>
      [] url = "https://test.com/api/en" -> <<"https:", "", "test.com", "api", "en">>
      [] url = "https://example.com/api" -> <<"https:", "", "example.com", "api">>
      [] OTHER -> <<url>>
RECURSIVE join_slash(_)
join_slash(parts) ==
    IF Len(parts) = 1 THEN parts[1]
    ELSE join_slash(SubSeq(parts, 1, Len(parts) - 1)) \o "/" \o parts[Len(parts)]

\* Config._base_url
_base_url(config) ==
    LET url == rstrip_slash(Item(Item(config, "api"), "base_url")[2])
        parts == split_slash(url)
    IN  IF Len(parts[Len(parts)]) = LANGUAGE_CODE_LENGTH
        THEN join_slash(SubSeq(parts, 1, Len(parts) - 1))
        ELSE url

\* Config.url_stations, url_timeframes and url_directions
url_stations(config, lang) ==
    _base_url(config) \o "/" \o language(lang)
        \o Item(Item(Item(config, "api"), "endpoints"), "stations")[2]
url_timeframes(config, lang) ==
    _base_url(config) \o "/" \o language(lang)
        \o Item(Item(Item(config, "api"), "endpoints"), "timeframes")[2]
url_directions(config) == Item(Item(config, "maps"), "directions_url")[2]

\* The documents config.yaml and config.example.yaml hold: the sections of a
\* configuration, each key present or left out
Members(flags, pairs) == SelectSeq(pairs, LAMBDA p : p[1] \in flags)
ConfigKeys == {"base_url", "stations", "timeframes", "directions_url", "language_map"}
ConfigDoc(base, keys) ==
    JObject(Members(keys \cup {"api", "maps"}, <<
        <<"api", JObject(Members(keys \cup {"endpoints"}, <<
            <<"base_url", JString(base)>>,
            <<"endpoints", JObject(Members(keys, <<
                <<"stations", JString("/stations")>>,
                <<"timeframes", JString("/timeframes")>> >>))>> >>))>>,
        <<"maps", JObject(Members(keys, <<
            <<"directions_url", JString("https://maps.test.com")>> >>))>>,
        <<"language_map", JObject(<< <<"en", JString("en-GB")>>, <<"es", JString("es-ES")>> >>)>> >>))

BaseUrls == {"https://test.com/api", "https://test.com/api/", "https://test.com/api/en"}

\* the configuration the tests load: the four keys and nothing else
TestConfig == ConfigDoc("https://test.com/api", ConfigKeys \ {"language_map"})

ConfigDocs ==
    {ConfigDoc(b, ConfigKeys) : b \in BaseUrls}
        \cup {ConfigDoc("https://test.com/api", ConfigKeys \ {k}) : k \in ConfigKeys}
        \cup {ConfigDoc("https://test.com/api", ConfigKeys \ {k, "language_map"}) : k \in ConfigKeys}
        \cup {JNull, JObject(<<>>),
              JObject(<< <<"api", JNull>>, <<"maps", JNull>>, <<"language_map", JNull>> >>)}

ConfigFiles == {NoFile, InvalidText} \cup {YamlFile(d) : d \in ConfigDocs}
ExampleFiles == {NoFile, InvalidText, YamlFile(ConfigDoc("https://example.com/api", ConfigKeys))}
Languages == {"en", "es"}

\* get_config() reading and validating the file on every call
GetConfigReloads ==
    \E rd \in {"ok", "OSError"} :
        \E r \in {_load_config(config_yaml, example_yaml, rd)} :
            /\ config_yaml' = r.config_yaml
            /\ _config' = r.config
            /\ last' = [NoCall EXCEPT !.op = "get_config", !.value = r.config,
                           !.raised = r.raised, !.message = r.message, !.rd = rd,
                           !.before = config_yaml, !.loaded = TRUE,
                           !.wrote = r.created]
            /\ UNCHANGED <<example_yaml, _language>>

\* get_config(): Config() loads the configuration unless an earlier call has
GetConfig ==
    \E rd \in {"ok", "OSError"} :
        IF _config # PyNone
        THEN /\ last' = [NoCall EXCEPT !.op = "get_config", !.value = _config,
                            !.before = config_yaml]
             /\ UNCHANGED <<configVars, translationVars>>
        ELSE \E r \in {_load_config(config_yaml, example_yaml, rd)} :
                /\ config_yaml' = r.config_yaml
                /\ _config' = r.config
                /\ last' = [NoCall EXCEPT !.op = "get_config", !.value = r.config,
                               !.raised = r.raised, !.message = r.message, !.rd = rd,
                               !.before = config_yaml, !.loaded = TRUE,
                               !.wrote = r.created]
                /\ UNCHANGED <<example_yaml, _language>>

\* get_config().set_language(language), on the instance get_config() returned
SetLanguage ==
    \E l \in Languages :
        /\ _config # PyNone
        /\ _language' = PyStr(l)
        /\ last' = [NoCall EXCEPT !.op = "set_language", !.before = config_yaml]
        /\ UNCHANGED <<config_yaml, example_yaml, _config>>

\* reading url_stations, url_timeframes and url_directions of the instance
ReadUrls ==
    /\ _config # PyNone
    /\ last' = [NoCall EXCEPT !.op = "urls", !.before = config_yaml,
                   !.urls = [stations |-> url_stations(_config, _language),
                             timeframes |-> url_timeframes(_config, _language),
                             directions |-> url_directions(_config)]]
    /\ UNCHANGED <<configVars, translationVars>>

NextConfig ==
    /\ (GetConfig \/ SetLanguage \/ ReadUrls)
    /\ UNCHANGED <<now, ticks, cacheDir, files, fetched>>
    /\ UNCHANGED <<reportVars, mainVars, translationVars>>

InitConfig ==
    /\ now = StartTime
    /\ ticks = 0
    /\ cacheDir = "absent"
    /\ files = [p \in Paths |-> NoFile]
    /\ fetched = [u \in AllUrls |-> NoEntry]
    /\ last = NoCall
    /\ NoReport
    /\ config_yaml \in ConfigFiles
    /\ example_yaml \in ExampleFiles
    /\ _config = PyNone
    /\ _language = Unset
    /\ NoMain
    /\ NoTranslations

SpecConfig == InitConfig /\ [][NextConfig]_vars

(***************************************************************************)
(* The translation manager as a state machine: any sequence of             *)
(* load_translations and get_translation calls after the import.           *)
(***************************************************************************)
\* load_translations(language)
LoadTranslations ==
    \E l \in TranslationLanguages :
        \E r \in {load_translations(l, translation_files, _translations,
                                    _fallback_translations)} :
            /\ _translations' = r.translations
            /\ _fallback_translations' = r.fallback
            /\ last' = [NoCall EXCEPT !.op = "load_translations", !.language = l,
                           !.value = r.value, !.raised = r.raised, !.stderr = r.stderr,
                           !.prior = _translations]
            /\ UNCHANGED translation_files

\* get_translation(key); the record keeps the language loaded last
GetTranslation ==
    \E k \in TranslationKeys :
        /\ last' = [NoCall EXCEPT !.op = "get_translation", !.language = last.language,
                       !.key = k,
                       !.value = PyStr(get_translation(k, _translations,
                                                       _fallback_translations))]
        /\ UNCHANGED translationVars

NextTranslations ==
    /\ (LoadTranslations \/ GetTranslation)
    /\ UNCHANGED <<now, ticks, cacheDir, files, fetched>>
    /\ UNCHANGED <<reportVars, configVars, mainVars>>

InitTranslations ==
    /\ now = StartTime
    /\ ticks = 0
    /\ cacheDir = "absent"
    /\ files = [p \in Paths |-> NoFile]
    /\ fetched = [u \in AllUrls |-> NoEntry]
    /\ translation_files \in TranslationDirs
    /\ _translations = Imported(translation_files).translations
    /\ _fallback_translations = Imported(translation_files).fallback
    /\ last = [NoCall EXCEPT !.op = "import", !.language = DEFAULT_LANGUAGE,
                  !.value = Imported(translation_files).value,
                  !.stderr = Imported(translation_files).stderr]
    /\ NoReport
    /\ NoConfig
    /\ NoMain

SpecTranslations == InitTranslations /\ [][NextTranslations]_vars

(***************************************************************************)
(* main.py: main().                                                        *)
(***************************************************************************)
output_obtaining_station_list_title == <<"obtaining_station_list">>

\* the "nothing found" message of the empty result sets
print_no_stations_with_rally_found == <<"no_stations_with_rally_found">>

\* len(stations_with_rally) == 0 with no test at all: routes are printed always
NoRallyStationsNever(rally) == FALSE

\* len(stations_with_rally) == 0
NoRallyStations(rally) == Len(rally[2]) = 0

\* main() begins: parse_arguments() and load_translations(args.language), which
\* read the command line and the translation files only
MainLoadTranslations ==
    /\ pc = "main"
    /\ \E l \in Languages :
          \E r \in {load_translations(l, translation_files, _translations,
                                      _fallback_translations)} :
             /\ _translations' = r.translations
             /\ _fallback_translations' = r.fallback
             /\ last' = [NoCall EXCEPT !.op = "load_translations", !.language = l,
                            !.value = r.value, !.raised = r.raised, !.stderr = r.stderr]
    /\ pc' = "main_config"
    /\ UNCHANGED <<now, ticks, cacheDir, files, fetched, translation_files>>
    /\ UNCHANGED <<stations, origin_index, futures, completed, output, block>>
    /\ UNCHANGED <<configVars, mainVars>>

\* get_config().set_language(args.language): the first get_config() of the run
\* loads the configuration, and what it raises ends main()
MainSetLanguage ==
    /\ pc = "main_config"
    /\ \E rd \in {"ok", "OSError"} :
          \E r \in {_load_config(config_yaml, example_yaml, rd)} :
             /\ config_yaml' = r.config_yaml
             /\ _config' = r.config
             /\ _language' = IF r.raised = "none" THEN PyStr(last.language) ELSE _language
             /\ last' = [NoCall EXCEPT !.op = "get_config", !.value = r.config,
                            !.language = last.language,
                            !.raised = r.raised, !.message = r.message, !.rd = rd,
                            !.before = config_yaml, !.loaded = TRUE, !.wrote = r.created]
             /\ pc' = IF r.raised = "none" THEN "main_stations" ELSE "main_raised"
    /\ UNCHANGED <<now, ticks, cacheDir, files, fetched, example_yaml>>
    /\ UNCHANGED <<stations, origin_index, futures, completed, output, block>>
    /\ UNCHANGED <<mainVars, translationVars>>

\* output_obtaining_station_list_title() and stations_json = get_stations_data()
MainGetStationsData ==
    /\ pc = "main_stations"
    /\ \E http \in HttpOutcomes(get_url_stations) :
          \E r \in {get_stations_data(cacheDir, files, now, "ok", http, "ok", "ok")} :
             /\ output' = Append(output, output_obtaining_station_list_title)
             /\ cacheDir' = r.dir
             /\ files' = r.fs
             /\ counts' = [counts EXCEPT !.requests = @ + r.requests]
             /\ last' = [NoCall EXCEPT !.op = "get_stations_data", !.value = r.value,
                            !.raised = r.raised, !.requests = r.requests, !.http = http[1]]
             /\ stations_json' = IF r.raised = "none" THEN r.value ELSE stations_json
             /\ pc' = IF r.raised = "none" THEN "main_test" ELSE "main_raised"
    /\ UNCHANGED <<now, ticks, fetched>>
    /\ UNCHANGED <<stations, origin_index, futures, completed, block>>
    /\ UNCHANGED <<stations_with_rally, rally_result>>
    /\ UNCHANGED <<configVars, translationVars>>

\* if stations_json is None: the message is printed and main() returns;
\* otherwise get_stations_with_rally(stations_json) is called
MainTestStations ==
    /\ pc = "main_test"
    /\ IF stations_json = PyNone
       THEN /\ output' = Append(output, print_no_stations_with_rally_found)
            /\ counts' = [counts EXCEPT !.nothing_found = @ + 1]
            /\ pc' = "main_returned"
       ELSE /\ pc' = "rally"
            /\ UNCHANGED <<output, counts>>
    /\ UNCHANGED <<now, ticks, cacheDir, files, fetched, last>>
    /\ UNCHANGED <<stations, origin_index, futures, completed, block>>
    /\ UNCHANGED <<stations_json, stations_with_rally, rally_result>>
    /\ UNCHANGED <<configVars, translationVars>>

\* get_stations_with_rally has returned: an empty list is answered with the
\* message, any other is handed to print_routes_for_stations
MainTestRally ==
    /\ pc = "rally_returned"
    /\ IF NoRallyStations(rally_result)
       THEN /\ output' = Append(output, print_no_stations_with_rally_found)
            /\ counts' = [counts EXCEPT !.nothing_found = @ + 1]
            /\ pc' = "main_returned"
            /\ UNCHANGED stations
       ELSE /\ stations' = rally_result[2]
            /\ counts' = [counts EXCEPT !.print_routes_for_stations = @ + 1]
            /\ pc' = "start"
            /\ UNCHANGED output
    /\ futures' = <<>>
    /\ UNCHANGED <<now, ticks, cacheDir, files, fetched, last>>
    /\ UNCHANGED <<origin_index, completed, block>>
    /\ UNCHANGED <<stations_json, stations_with_rally, rally_result>>
    /\ UNCHANGED <<configVars, translationVars>>

\* the configurations a run of main() finds
MainConfigFiles ==
    {NoFile, InvalidText, YamlFile(JNull), YamlFile(TestConfig),
     YamlFile(ConfigDoc("https://test.com/api", ConfigKeys \ {"base_url"})),
     YamlFile(ConfigDoc("https://test.com/api", ConfigKeys))}

NextMain ==
    \/ MainLoadTranslations
    \/ MainSetLanguage
    \/ MainGetStationsData
    \/ MainTestStations
    \/ NextRally
    \/ MainTestRally
    \/ NextReport

InitMain ==
    /\ now = StartTime
    /\ ticks = 0
    /\ cacheDir \in {"absent", "dir"}
    /\ files = [p \in Paths |-> NoFile]
    /\ fetched = [u \in AllUrls |-> NoEntry]
    /\ last = NoCall
    /\ stations = <<>>
    /\ pc = "main"
    /\ origin_index = 0
    /\ futures = <<>>
    /\ completed = <<>>
    /\ output = <<>>
    /\ block = NoBlock
    /\ config_yaml \in MainConfigFiles
    /\ example_yaml \in {NoFile, YamlFile(ConfigDoc("https://example.com/api", ConfigKeys))}
    /\ _config = PyNone
    /\ _language = Unset
    /\ NoMain
    /\ NoTranslations

SpecMain == InitMain /\ [][NextMain]_vars



(***************************************************************************)
(* Properties of the cache store and of the API client.                    *)
(***************************************************************************)
\* the cache file of the URL of the call just made
LastFile == files[CachePath(last.url)]

\* a cache file holding an entry: a JSON object with a numeric timestamp
IsEntry(f) ==
    /\ f[1] = "json"
    /\ f[2][1] = "object"
    /\ \E i \in 1..Len(f[2][2]) : f[2][2][i][1] = "timestamp" /\ f[2][2][i][2][1] = "number"
EntryTimestamp(f) == DictGet(JsonLoads(f[2]), "timestamp", PyInt(0))[2]
EntryData(f) == DictGet(JsonLoads(f[2]), "data", PyNone)

\* every dict key in v is a str, as in a value json.loads returns
RECURSIVE StrKeyed(_)
StrKeyed(v) ==
    CASE v[1] = "list" -> \A i \in 1..Len(v[2]) : StrKeyed(v[2][i])
      [] v[1] = "dict" -> \A i \in 1..Len(v[2]) : v[2][i][1][1] = "str" /\ StrKeyed(v[2][i][2])
      [] OTHER -> TRUE

CachedOps == {"get_station_data", "get_station_transfer_dates"}

\* C2, as claimed: a cache-backed call made within the TTL of the entry an earlier
\* call fetched and stored, with no clear_cache in between, issues no HTTP request
\* and returns the stored payload, whatever the payload.
C2_CacheHitForEveryPayload ==
    (/\ last.op \in CachedOps
     /\ last.prior # NoEntry
     /\ now - last.prior[3] < CACHE_TTL)
    => (last.requests = 0 /\ last.raised = "none" /\ last.value = last.prior[2])

C4_ExpiredIsAbsent ==
    (/\ last.op = "get_cached"
     /\ IsEntry(LastFile)
     /\ EntryTimestamp(LastFile) + CACHE_TTL < now)
    => (last.raised = "none" /\ last.value = PyNone)

C4_Witness ==
    /\ last.op = "get_cached"
    /\ last.rd = "ok"
    /\ IsEntry(LastFile)
    /\ EntryTimestamp(LastFile) = now - CACHE_TTL - 1
    /\ Truthy(EntryData(LastFile))
    /\ last.value = PyNone

\* C5, as claimed: get_cached returns the payload of a stored entry if and only if
\* now - stored_at < TTL; an entry aged exactly TTL is absent.
C5_ValidIffYoungerThanTTL ==
    (last.op = "get_cached" /\ last.rd = "ok" /\ IsEntry(LastFile))
    => /\ last.raised = "none"
       /\ last.value = IF now - EntryTimestamp(LastFile) < CACHE_TTL
                       THEN EntryData(LastFile) ELSE PyNone

\* C5, amended: get_cached returns the payload of a stored entry if and only if
\* now - stored_at <= TTL; an entry aged exactly TTL is still served.
C5_ValidIffNotOlderThanTTL ==
    (last.op = "get_cached" /\ last.rd = "ok" /\ IsEntry(LastFile))
    => /\ last.raised = "none"
       /\ last.value = IF now - EntryTimestamp(LastFile) <= CACHE_TTL
                       THEN EntryData(LastFile) ELSE PyNone

C5_Witness ==
    /\ last.op = "get_cached"
    /\ last.rd = "ok"
    /\ IsEntry(LastFile)
    /\ now - EntryTimestamp(LastFile) = CACHE_TTL
    /\ Truthy(EntryData(LastFile))
    /\ last.value = EntryData(LastFile)

\* C8: a stations-list call (get_stations_data, get_json_from_url with
\* use_cache=False) issues exactly one HTTP request, returns the fresh response, and
\* neither reads nor writes the cache, whatever the cache holds for its URL.
C8_StationsListBypassesCache ==
    [][ (last'.op \in {"get_stations_data", "get_json_from_url"})
        => /\ files' = files
           /\ cacheDir' = cacheDir
           /\ last'.requests = 1
           /\ last'.reads = 0
           /\ last'.writes = 0
           /\ last'.raised = "none"
           /\ last'.value = IF last'.http = "ok" THEN last'.data ELSE PyNone ]_vars

C8_Witness ==
    /\ last.op = "get_stations_data"
    /\ LastFile = StationsFile
    /\ now - EntryTimestamp(LastFile) < CACHE_TTL
    /\ last.http = "ok"
    /\ last.requests = 1
    /\ last.value = JsonLoads(StationsListJson)
    /\ last.value # EntryData(LastFile)

\* C9, as claimed: on a cache file that is unreadable or corrupt (not JSON, or JSON
\* that is no object with a numeric timestamp) get_cached returns None and never
\* raises.
C9_CorruptIsAbsent ==
    (last.op = "get_cached" /\ LastFile # NoFile /\ ~IsEntry(LastFile))
    => (last.raised = "none" /\ last.value = PyNone)

\* C11: after clear_cache() the directory is gone and get_cached(u) is None for every
\* URL u, those stored before the clear included; clear_cache raises nothing with
\* or without a directory, and a second clear_cache() changes nothing. (The file
\* system lets the directory be removed.)
C11_ClearRemovesEveryEntry ==
    /\ [](last.op = "clear_cache"
           => /\ last.raised = "none"
              /\ cacheDir = "absent"
              /\ \A u \in AllUrls : \A rd \in ReadOutcomes :
                    get_cached(u, cacheDir, files, now, rd) = Return(PyNone))
    /\ []((last.op = "get_cached" /\ last.after = "clear_cache")
           => (last.raised = "none" /\ last.value = PyNone))
    /\ [][(last.op = "clear_cache" /\ last'.op = "clear_cache")
           => (cacheDir' = cacheDir /\ files' = files /\ last'.raised = "none")]_vars

C11_Witness ==
    /\ last.op = "get_cached"
    /\ last.after = "clear_cache"
    /\ last.had_dir
    /\ last.url \in last.removed
    /\ Bystander \in last.removed
    /\ last.value = PyNone

\* C12: a get_json_from_url call whose request fails with URLError or HTTPError
\* returns None and raises nothing, with use_cache=False and with use_cache=True.
C12_FailedRequestIsAbsent ==
    (/\ last.op \in {"get_json_from_url", "get_stations_data", "get_station_data",
                     "get_station_transfer_dates"}
     /\ last.requests = 1
     /\ last.http \in {"HTTPError", "URLError"})
    => (last.raised = "none" /\ last.value = PyNone)

C12_Witness ==
    /\ last.op = "get_station_transfer_dates"
    /\ last.use_cache
    /\ last.requests = 1
    /\ last.http = "URLError"
    /\ last.raised = "none"
    /\ last.value = PyNone

JsonCalls == {"get_json_from_url", "get_json_from_url_cached", "get_stations_data",
              "get_station_data", "get_station_transfer_dates"}

\* the cache holds for the URL an entry that is not expired and whose payload is
\* not empty: what a cache-backed call takes for a hit
CacheHit(url) ==
    /\ cacheDir = "dir"
    /\ IsEntry(files[CachePath(url)])
    /\ ~Expired(EntryTimestamp(files[CachePath(url)]), now)
    /\ Truthy(EntryData(files[CachePath(url)]))

\* C24: a call of get_json_from_url issues at most one HTTP request: none when it
\* is cache-backed and the cache holds a payload for it to return, and otherwise
\* exactly one, also when that request fails.
C24_AtMostOneRequest ==
    [][last'.op \in JsonCalls =>
          /\ last'.requests <= 1
          /\ (last'.use_cache /\ CacheHit(last'.url)) =>
                /\ last'.requests = 0
                /\ last'.value = EntryData(files[CachePath(last'.url)])
          /\ ~(last'.use_cache /\ CacheHit(last'.url)) => last'.requests = 1]_vars

\* a cache-backed call whose one request failed
C24_Witness ==
    /\ last.op = "get_json_from_url_cached"
    /\ last.http = "HTTPError"
    /\ last.requests = 1
    /\ last.value = PyNone

\* C25, as claimed: of two cache-backed requests for one URL with different header
\* sets, the second, made within TTL of the first, issues no request and is served
\* the entry the first stored.
C25_HeadersDoNotSplitTheCache ==
    [][(/\ last.op = "get_json_from_url_cached"
        /\ last.wrote
        /\ last'.op = "get_json_from_url_cached"
        /\ last'.url = last.url
        /\ last'.headers # last.headers) =>
          /\ last'.requests = 0
          /\ last'.value = last.value
          /\ files' = files]_vars

\* C26: a get_cached call, whatever it finds, leaves the cache directory and every
\* cache file as they were; a cache file changes only by a set_cache for its URL
\* or by clear_cache, so an expired entry stays on disk until then.
C26_GetCachedLeavesTheStore ==
    [][/\ last'.op = "get_cached" => (files' = files /\ cacheDir' = cacheDir)
       /\ \A u \in AllUrls :
             files'[CachePath(u)] # files[CachePath(u)] =>
                \/ last'.op = "clear_cache"
                \/ last'.op = "set_cache" /\ last'.url = u]_vars

\* get_cached has reported an expired entry absent, and the entry is still on disk
\* beside the entry of another URL
C26_Witness ==
    /\ last.op = "get_cached"
    /\ last.rd = "ok"
    /\ last.value = PyNone
    /\ IsEntry(LastFile)
    /\ EntryTimestamp(LastFile) + CACHE_TTL < now
    /\ files[CachePath(Bystander)] = BystanderFile

\* the call just made was cache-backed and found the entry an earlier call had
\* stored for its URL expired
FoundExpired ==
    /\ last.op \in CachedOps \cup {"get_json_from_url_cached"}
    /\ last.prior # NoEntry
    /\ last.prior[3] + CACHE_TTL < now

\* C27, as claimed: a cache-backed fetch that finds the entry of its URL expired
\* issues one request and never returns the expired payload; when the request
\* succeeds it stores the fresh payload with the time of the call, and the next
\* cache-backed fetch of the URL within TTL issues no request and is served that
\* payload.
C27_RefreshAfterExpiry ==
    /\ [](FoundExpired =>
            /\ last.requests = 1
            /\ last.value = IF last.http = "ok" THEN last.data ELSE PyNone
            /\ last.http = "ok" =>
                  LastFile = JsonFile(JsonDumps(PyDict(<< <<PyStr("timestamp"), PyInt(now)>>,
                                                          <<PyStr("data"), last.data>> >>))))
    /\ [][(/\ FoundExpired
            /\ last.http = "ok"
            /\ last'.op \in CachedOps \cup {"get_json_from_url_cached"}
            /\ last'.url = last.url) =>
              /\ last'.requests = 0
              /\ last'.value = last.data]_vars

\* C28: a cache-backed fetch whose request fails with an HTTP or transport error
\* creates no cache directory and creates, overwrites or removes no cache file,
\* for its own URL or for any other.
C28_FailureIsNotCached ==
    [][(/\ last'.op \in JsonCalls
        /\ last'.use_cache
        /\ last'.requests = 1
        /\ last'.http \in {"HTTPError", "URLError"}) =>
          /\ files' = files
          /\ cacheDir' = cacheDir
          /\ ~last'.wrote]_vars

\* the request of a cache-backed fetch has failed while the cache holds an entry of
\* its URL that the fetch did not return, and the entry is still there
C28_Witness ==
    /\ last.op = "get_station_data"
    /\ last.use_cache
    /\ last.http = "URLError"
    /\ last.requests = 1
    /\ last.prior # NoEntry
    /\ IsEntry(LastFile)
    /\ EntryData(LastFile) = last.prior[2]
    /\ EntryTimestamp(LastFile) = last.prior[3]

\* C10, as claimed: set_cache never raises to its caller.
C10_SetCacheNeverRaises ==
    last.op = "set_cache" => last.raised = "none"

(***************************************************************************)
(* Properties of the report builder.                                       *)
(***************************************************************************)
\* the destinations printed so far for the origin station in hand
IsRoute(e) == e[1] = "route"
OriginAt ==
    CHOOSE i \in DOMAIN output :
        output[i][1] = "origin" /\ \A j \in DOMAIN output : j > i => output[j][1] # "origin"
PrintedDestinations == SelectSeq(SubSeq(output, OriginAt + 1, Len(output)), IsRoute)

\* the position in returns of the station of that name
ReturnsIndex(name) ==
    LET returns == Item(stations[origin_index], "returns")[2]
    IN  CHOOSE i \in DOMAIN returns : StationName(returns[i][2]) = name

\* C1, as claimed: whatever the order in which the transfer-date fetches complete,
\* print_station_destinations prints the destinations of an origin in the order of
\* its returns list.
C1_OutputInReturnsOrder ==
    pc \in {"as_completed", "shutdown", "raised"}
    => \A a, b \in DOMAIN PrintedDestinations :
          a < b => ReturnsIndex(PrintedDestinations[a][2]) < ReturnsIndex(PrintedDestinations[b][2])

\* C6, as claimed: a destination whose detail lookup returned None is skipped: no
\* exception is raised, nothing is printed for it, and the report goes on.
C6_AbsentDetailSkipped ==
    block.destination_station = PyNone
    => /\ block.raised = "none"
       /\ pc \notin {"shutdown", "raised"}
       /\ output[Len(output)] # output_destination_title

\* C7, as claimed: an absent (None) transfer-date result of a destination whose
\* detail was obtained is skipped: print_station_destinations raises nothing and
\* goes on to the other destinations.
C7_AbsentDatesSkipped ==
    (/\ block.available_dates = PyNone
     /\ block.destination_station[1] = "dict"
     /\ DictHas(block.destination_station, "address")
     /\ DictHas(block.destination_station, "name"))
    => (block.raised = "none" /\ pc \notin {"shutdown", "raised"})

\* the origin printed last, as an index of stations, and what was printed after it
PrintedOrigin ==
    CHOOSE i \in DOMAIN stations : Item(stations[i], "name")[2] = output[OriginAt][2]
PrintedAfterOrigin == SubSeq(output, OriginAt + 1, Len(output))
ReturnsOf(i) == Item(stations[i], "returns")[2]
StationIdOf(name) == CHOOSE id \in 1..3 : StationName(id) = name
\* the route printed last before position j
RouteBefore(j) ==
    PrintedAfterOrigin[CHOOSE i \in 1..j : /\ IsRoute(PrintedAfterOrigin[i])
                                          /\ \A k \in (i + 1)..j : ~IsRoute(PrintedAfterOrigin[k])]
\* print_station_destinations has ended for the origin printed last
StationEnded == (pc \in {"station", "returned"} /\ origin_index > 1) \/ pc = "raised"

\* C29, as claimed: for every origin and every interleaving of the workers,
\* print_station_destinations submits one transfer-date fetch per element of returns
\* and runs each once, has printed one destination block per element when it
\* ends, and prints in each block the dates fetched for the destination of the block.
C29_OneBlockPerReturn ==
    /\ pc = "as_completed" =>
          /\ Len(futures) = Len(ReturnsOf(origin_index))
          /\ \A i \in DOMAIN futures : futures[i].dest = ReturnsOf(origin_index)[i]
    /\ (output # <<>> /\ \E i \in DOMAIN output : output[i][1] = "origin") =>
          /\ \A j \in DOMAIN PrintedAfterOrigin :
                PrintedAfterOrigin[j][1] = "dates" =>
                   PrintedAfterOrigin[j][2] = FormatDate(DateOf(StationIdOf(RouteBefore(j)[2])))
          /\ StationEnded =>
                \A i \in DOMAIN ReturnsOf(PrintedOrigin) :
                   Cardinality({j \in DOMAIN PrintedDestinations :
                                   PrintedDestinations[j][2]
                                       = StationName(ReturnsOf(PrintedOrigin)[i][2])}) = 1

(***************************************************************************)
(* Properties of the two worker pools.                                     *)
(***************************************************************************)
ReportFanOut == pc \in {"as_completed", "shutdown"}
RallyFanOut == pc \in {"rally_as_completed", "rally_shutdown"}
\* the step of the as_completed loop of print_station_destinations: the calling
\* thread fetches the detail of the destination while the workers go on
LoopBodyStep == pc = "as_completed" /\ Len(completed') < Len(completed)
CallerRequests == counts'.requests - counts.requests
\* the cache has nothing for the call of worker i, so that the call is a request
WorkerMisses(i) ==
    files[CachePath(TimeframesUrl(Item(stations[origin_index], "id")[2],
                                  futures[i].dest[2]))] = NoFile

OneWayTrue(station) == DictHas(station, "one_way") /\ Item(station, "one_way") = PyBool(TRUE)
RallyStations == SelectSeq(stations_json[2], OneWayTrue)

\* the futures, in the order of submission, whose call returned a detail
HoldsDetail(future) == future.result # PyNone /\ future.result # PyDict(<<>>)
FetchedDetails == SelectSeq(futures, HoldsDetail)

\* C13: whatever the order in which the detail fetches complete, get_stations_with_rally
\* returns the details of exactly the stations whose one_way is true (a missing key
\* counts as false), in the order of the list handed over. (Every fetch returned a
\* detail; C14 is about the others.)
C13_RallyStationsInInputOrder ==
    (/\ pc = "rally_returned"
     /\ \A i \in DOMAIN futures : HoldsDetail(futures[i]))
    => rally_result = PyList([i \in DOMAIN RallyStations |->
                                 Station(Item(RallyStations[i], "id")[2])])

C13_Witness ==
    /\ pc = "rally_returned"
    /\ Len(stations_json[2]) = 3
    /\ Len(RallyStations) = 2
    /\ Len(stations_with_rally) = 2
    /\ stations_with_rally[1][1] = Item(RallyStations[2], "id")
    /\ rally_result = PyList(<<Station(Item(RallyStations[1], "id")[2]),
                               Station(Item(RallyStations[2], "id")[2])>>)

\* C14: a rally station whose detail fetch returned None is left out, nothing is
\* raised, and the details the other fetches returned are all there, in the order of
\* the list handed over.
C14_AbsentDetailOmitted ==
    /\ pc \notin {"rally_shutdown", "raised"}
    /\ pc = "rally_returned"
       => /\ rally_result = PyList([i \in DOMAIN FetchedDetails |-> FetchedDetails[i].result])
          /\ \A i \in DOMAIN futures :
                futures[i].result = PyNone
                => \A k \in DOMAIN rally_result[2] :
                      Item(rally_result[2][k], "id") # futures[i].dest

C14_Witness ==
    /\ pc = "rally_returned"
    /\ Len(futures) = 2
    /\ futures[1].result = PyNone
    /\ futures[2].result = Station(futures[2].dest[2])
    /\ rally_result = PyList(<<futures[2].result>>)

(***************************************************************************)
(* Properties of the configuration.                                        *)
(***************************************************************************)
\* the last call loaded config.yaml, which was read without an I/O error
Loaded == last.op = "get_config" /\ last.loaded /\ last.rd = "ok"

\* the mapping a configuration file holds, if it holds one
IsMapping(f) == f[1] = "yaml" /\ f[2][1] = "object"
SectionOf(f, name) == Item(yaml_safe_load(f), name)
HasSections(f) ==
    /\ IsMapping(f)
    /\ SectionOf(f, "api")[1] = "dict"
    /\ SectionOf(f, "maps")[1] = "dict"
LacksBaseUrl(f) == ~DictHas(SectionOf(f, "api"), "base_url")
LacksTimeframes(f) ==
    /\ DictHas(SectionOf(f, "api"), "endpoints")
    /\ Item(SectionOf(f, "api"), "endpoints")[1] = "dict"
    /\ ~DictHas(Item(SectionOf(f, "api"), "endpoints"), "timeframes")
LacksDirectionsUrl(f) == ~DictHas(SectionOf(f, "maps"), "directions_url")
Names(key) ==
    /\ last.raised = "ConfigurationError"
    /\ last.message = "Missing required field '" \o key \o "' in configuration"

\* C17, as claimed: loading a configuration that has the api and maps sections
\* and lacks exactly one of api.base_url, api.endpoints.timeframes and
\* maps.directions_url raises ConfigurationError with a message naming that key.
C17_MissingKeyNamed ==
    (Loaded /\ HasSections(last.before)) =>
        /\ (LacksBaseUrl(last.before) /\ ~LacksTimeframes(last.before)
                /\ ~LacksDirectionsUrl(last.before)) => Names("api.base_url")
        /\ (LacksTimeframes(last.before) /\ ~LacksBaseUrl(last.before)
                /\ ~LacksDirectionsUrl(last.before)) => Names("api.endpoints.timeframes")
        /\ (LacksDirectionsUrl(last.before) /\ ~LacksBaseUrl(last.before)
                /\ ~LacksTimeframes(last.before)) => Names("maps.directions_url")

\* C18, as claimed: the configuration holding api.base_url, api.endpoints.stations,
\* api.endpoints.timeframes and maps.directions_url and nothing else loads
\* without an exception.
C18_FourKeysAccepted ==
    (Loaded /\ last.before = YamlFile(TestConfig)) =>
        /\ last.raised = "none"
        /\ _config = yaml_safe_load(YamlFile(TestConfig))

\* the base URL and the endpoint paths of the loaded configuration
BaseUrlOf(config) == Item(Item(config, "api"), "base_url")[2]
StationsPathOf(config) == Item(Item(Item(config, "api"), "endpoints"), "stations")[2]
TimeframesPathOf(config) == Item(Item(Item(config, "api"), "endpoints"), "timeframes")[2]

\* C19, as claimed: url_stations of a loaded configuration is its base URL followed
\* by its stations path, and url_timeframes its base URL followed by its
\* timeframes path.
C19_UrlIsBaseThenPath ==
    last.op = "urls" =>
        /\ last.urls.stations = BaseUrlOf(_config) \o StationsPathOf(_config)
        /\ last.urls.timeframes = BaseUrlOf(_config) \o TimeframesPathOf(_config)

\* C20: a load that finds no config.yaml leaves config.yaml an exact copy of
\* config.example.yaml when the template exists, and otherwise raises
\* ConfigurationError ("config.example.yaml not found") and creates no file; the
\* template is never changed, and no call of the configuration changes a
\* config.yaml that exists.
C20_CreatedFromTemplateOnly ==
    /\ [](last.op = "get_config" /\ last.loaded /\ last.before = NoFile =>
            IF example_yaml # NoFile
            THEN config_yaml = example_yaml /\ last.wrote
            ELSE /\ last.raised = "ConfigurationError"
                 /\ last.message = "config.example.yaml not found. Cannot create default configuration."
                 /\ config_yaml = NoFile
                 /\ ~last.wrote)
    /\ [][/\ example_yaml' = example_yaml
          /\ config_yaml # NoFile => config_yaml' = config_yaml]_vars

\* a load found no config.yaml and created it from a template that is no valid
\* configuration: the copy is in place although the load failed
C20_Witness ==
    /\ last.op = "get_config" /\ last.loaded
    /\ last.before = NoFile
    /\ last.wrote
    /\ config_yaml = example_yaml
    /\ example_yaml = InvalidText
    /\ last.raised = "ConfigurationError"

\* C21: there is one Config instance, and once it holds a loaded configuration a
\* get_config() call neither reads nor validates config.yaml (it succeeds with the
\* file unreadable), returns the configuration loaded before, and leaves the
\* language set with set_language in effect.
C21_LoadOnceReadMany ==
    [][(_config # PyNone /\ last'.op = "get_config") =>
          /\ ~last'.loaded
          /\ last'.raised = "none"
          /\ last'.value = _config
          /\ _config' = _config
          /\ _language' = _language
          /\ config_yaml' = config_yaml]_vars

\* a get_config() call after a successful load and a set_language call
C21_Witness ==
    /\ last.op = "get_config"
    /\ ~last.loaded
    /\ last.value = _config
    /\ _config # PyNone
    /\ _language = PyStr("es")

(***************************************************************************)
(* Properties of the translations.                                         *)
(***************************************************************************)
\* what the file of a language defines: nothing where there is no file
LangTable(l) ==
    IF translation_files[l] # NoFile THEN JsonLoads(translation_files[l][2]) ELSE PyDict(<<>>)
\* the string of key k in the language, else in the default language, else k itself
Translated(l, k) ==
    IF DictHas(LangTable(l), k) THEN DictGet(LangTable(l), k, PyNone)[2]
    ELSE IF DictHas(LangTable(DEFAULT_LANGUAGE), k)
    THEN DictGet(LangTable(DEFAULT_LANGUAGE), k, PyNone)[2]
    ELSE k

\* C22: whatever load_translations calls came before, get_translation(k) returns
\* the string of the language loaded last if that language defines k, otherwise
\* the English string if English defines k, otherwise k.
C22_TranslationOrFallbackOrKey ==
    last.op = "get_translation" => last.value = PyStr(Translated(last.language, last.key))

\* Spanish was loaded last and the key asked for is defined in English only
C22_Witness ==
    /\ last.op = "get_translation"
    /\ last.language = "es"
    /\ last.key = "origin"
    /\ translation_files["es"] # NoFile
    /\ last.value = PyStr("Origin")

\* C23: load_translations(L) for a language without a file does not raise, returns
\* the table of the default language (the empty one when that has no file either),
\* prints a warning naming L when L is not the default, and leaves the manager
\* answering every key as the default language does.
C23_MissingLanguageFallsBack ==
    (last.op = "load_translations" /\ translation_files[last.language] = NoFile) =>
        /\ last.raised = "none"
        /\ last.value = LangTable(DEFAULT_LANGUAGE)
        /\ last.language # DEFAULT_LANGUAGE =>
              /\ last.stderr # <<>>
              /\ Head(last.stderr) = "Warning: Translation file for '" \o last.language
                                         \o "' not found. Falling back to en."
        /\ \A k \in TranslationKeys :
              get_translation(k, _translations, _fallback_translations)
                  = Translated(DEFAULT_LANGUAGE, k)

\* "fr" is loaded while the Spanish table is the current one
C23_Witness ==
    /\ last.op = "load_translations"
    /\ last.language = "fr"
    /\ last.prior = JsonLoads(TranslationDoc("es"))
    /\ last.value = JsonLoads(TranslationDoc("en"))
    /\ _translations = last.value

(***************************************************************************)
(* Properties of main().                                                   *)
(***************************************************************************)
\* positions of main() inside get_stations_with_rally and before it
BeforeRallyTest == {"main", "main_config", "main_stations", "main_test", "rally",
                    "rally_as_completed", "rally_shutdown", "rally_returned"}
\* positions inside print_routes_for_stations, its return included
InReport == {"start", "station", "as_completed", "shutdown", "returned"}
ListObtained == stations_json # Unset /\ stations_json # PyNone
RallyNonEmpty == rally_result # Unset /\ Len(rally_result[2]) > 0

\* C15: main() calls print_routes_for_stations once, with the list
\* get_stations_with_rally returned, exactly when the station list was obtained and
\* that list is not empty; in every other run that returns it prints the
\* nothing-found message once and no routes; and with no station list
\* get_stations_with_rally is not called.
C15_RoutesOrNothingFound ==
    /\ counts.print_routes_for_stations <= 1
    /\ counts.nothing_found <= 1
    /\ counts.print_routes_for_stations = 1 =>
          /\ ListObtained /\ RallyNonEmpty
          /\ stations = rally_result[2]
          /\ counts.nothing_found = 0
    /\ (ListObtained /\ RallyNonEmpty /\ pc \notin BeforeRallyTest) =>
          counts.print_routes_for_stations = 1
    /\ pc \in InReport => counts.print_routes_for_stations = 1
    /\ pc = "main_returned" =>
          /\ ~(ListObtained /\ RallyNonEmpty)
          /\ counts.nothing_found = 1
          /\ counts.print_routes_for_stations = 0
          /\ output = <<output_obtaining_station_list_title, print_no_stations_with_rally_found>>
    /\ stations_json = PyNone => counts.get_stations_with_rally = 0
    /\ counts.get_stations_with_rally <= 1

\* a run that obtained the station list, found a rally station and has returned
\* from print_routes_for_stations, beside the message never printed
C15_Witness ==
    /\ pc = "returned"
    /\ counts.print_routes_for_stations = 1
    /\ counts.get_stations_with_rally = 1
    /\ counts.nothing_found = 0
    /\ stations = <<Station(1)>>

\* the configuration a run finds: config.yaml, or the template it is copied from
EffectiveFile == IF config_yaml # NoFile THEN config_yaml ELSE example_yaml
ConfigMissing == EffectiveFile = NoFile
ConfigMalformed == EffectiveFile = InvalidText
ConfigLacksKey ==
    /\ EffectiveFile[1] = "yaml"
    /\ _validate_config(yaml_safe_load(EffectiveFile)).raised # "none"

\* C16, as claimed: in a run of main() whose configuration is missing with no
\* template, malformed or without a required key, no upstream request is ever
\* issued and the run ends with ConfigurationError.
C16_ConfigurationErrorBeforeRequests ==
    (ConfigMissing \/ ConfigMalformed \/ ConfigLacksKey) =>
        /\ counts.requests = 0
        /\ pc \in {"main", "main_config", "main_raised"}
        /\ pc = "main_raised" => last.raised = "ConfigurationError"

=============================================================================
